---- MODULE Spec2Model ----
(***************************************************************************)
(* The background log-shipping pipeline of js/src/logger.ts                *)
(* (class BackgroundLogger): the queue, log(), flush(), the single-flight  *)
(* drain pass (triggerActiveFlush / flushOnce), the resolution of the      *)
(* queued lazy values and the per-batch submission with retries.           *)
(*                                                                         *)
(* JavaScript runs every synchronous stretch of code to completion, so     *)
(* one action of the model is the code between two awaits.                 *)
(***************************************************************************)
EXTENDS Integers, Sequences, FiniteSets, TLC

\* ------------------------------------------------------------------ bounds
\* records handed to log() over a run
MaxItems == 3
\* records handed to one log() call
MaxLogLen == 2
\* flush() calls over a run
MaxFlushCalls == 2
\* the value BRAINTRUST_QUEUE_DROP_EXCEEDING_MAXSIZE is set to, when it is set
QueueMax == 1
\* the value BRAINTRUST_NUM_RETRIES is set to in the runs of many records
RetriesEnv == 1
\* the largest value BRAINTRUST_NUM_RETRIES is set to in the runs of one record
MaxRetriesEnv == 3
\* traces (connected components of spans) the logged rows belong to
NumTraces == 2
\* seconds the clock advances over a run
MaxTicks == 1
\* connections the logger is given over a run
MaxConns == 2
\* the value BRAINTRUST_DEFAULT_BATCH_SIZE is set to
BatchSize == 1
\* the value BRAINTRUST_QUEUE_DROP_LOGGING_PERIOD is set to
DropLoggingPeriod == 0

\* ------------------------------------------------------- program constants
\* numTries: number = 3
DefaultNumTries == 3
\* an environment variable that is not set: Number(undefined) is NaN
NaN == -1
\* queueDropExceedingMaxsize: number | undefined = undefined
Undefined == -1
\* the settled promise activeFlush starts as, and the undefined activeFlushError
NoPass == 0
\* a LazyValue<HTTPConnection> whose producer rejects
BrokenConn == 0
\* maxRequestSize: number = 6 * 1024 * 1024
MaxRequestSize == 6291456
\* the length of one record's JSON.stringify
ItemBytes == 1

VARIABLES
  syncFlush,                  \* this.syncFlush
  numTries,                   \* this.numTries
  numRetriesEnv,              \* BRAINTRUST_NUM_RETRIES as read by the constructor
  queueDropExceedingMaxsize,  \* this.queueDropExceedingMaxsize
  failedPublishPayloadsDir,   \* this.failedPublishPayloadsDir is set
  allPublishPayloadsDir,      \* this.allPublishPayloadsDir is set
  budget,                     \* the log() records and flush() calls the run makes
  queueDropLoggingState,      \* this.queueDropLoggingState
  clock,                      \* getCurrentUnixTimestamp(), as an offset from the start of the run
  items,                      \* this.items, the queue
  apiConn,                    \* this.apiConn
  activeFlush,                \* this.activeFlush: the id of the pass it is the promise of
  activeFlushResolved,        \* this.activeFlushResolved
  activeFlushError,           \* this.activeFlushError: the id of the pass that raised it
  passes,                     \* the drain passes in progress (async bodies of triggerActiveFlush)
  passCount,                  \* passes started so far
  flushCalls,                 \* the flush() calls made so far, each with its position
  done,                       \* history: how the pass that finished last ended
  nextId,                     \* records handed to log() so far
  stats,                      \* history: counters of what log() and the drains did
  experiment,                 \* the Experiment the spans are logged to (calledStartSpan, lastStartTime)
  spans,                      \* the SpanImpl objects constructed so far
  uuids,                      \* uuidv4() values drawn so far
  frames,                     \* the traced() invocations whose callback is running
  emitted,                    \* history: every record handed to bgLogger().log(), in order
  lastCall,                   \* history: the last call made on the tracing API, and whether it raised
  cliRun,                     \* the eval CLI: the position of run(), and the handle it is destroying
  cliOnce,                    \* the position of runOnce(), and the evaluators it runs
  handles,                    \* the FileHandles: the rebuild and the destroy of each
  asyncStore,                 \* state.currentSpan: the store of the code that is running
  running,                    \* the traced() callback whose code is running, if any
  callbacks,                  \* the traced() callbacks called so far, each with its position
  lastRead,                   \* the last currentSpan() evaluated: by which callback, and its result
  exportable,                 \* the object that is exported: a Logger or an Experiment, and its computeMetadataArgs
  lazy,                       \* its LazyValues lazyMetadata and lazyId
  calls,                      \* the get() and export() calls made on it, each with its position
  validation,                 \* one call that validates an event: its arguments and what it returned or raised
  batching                    \* flushOnce between unwrapLazyValues and the first round: the resolved records, the limits, the batch sets

vars == <<syncFlush, numTries, numRetriesEnv, queueDropExceedingMaxsize,
          failedPublishPayloadsDir, allPublishPayloadsDir, budget,
          queueDropLoggingState, clock, items, apiConn, activeFlush,
          activeFlushResolved, activeFlushError, passes, passCount,
          flushCalls, done, nextId, stats,
          experiment, spans, uuids, frames, emitted, lastCall,
          cliRun, cliOnce, handles,
          asyncStore, running, callbacks, lastRead,
          exportable, lazy, calls, validation, batching>>

\* the state of the tracing API on top of the logger
spanVars == <<experiment, spans, uuids, frames, emitted, lastCall>>

\* the state of the parts that are modelled on their own, which the logger
\* and the tracing API leave as it is
currentVars == <<asyncStore, running, callbacks, lastRead>>

cliVars == <<cliRun, cliOnce, handles>>

partVars ==
  <<cliVars, currentVars, exportable, lazy, calls, validation, batching>>

config == <<syncFlush, numTries, numRetriesEnv, queueDropExceedingMaxsize,
            failedPublishPayloadsDir, allPublishPayloadsDir, budget>>

\* ----------------------------------------------------------------- helpers
Min(a, b) == IF a < b THEN a ELSE b
Max(a, b) == IF a > b THEN a ELSE b

Range(s) == {s[k] : k \in 1..Len(s)}

Ids(s) == {s[k].id : k \in 1..Len(s)}

\* Array.prototype.slice(from, to), 0-based, to exclusive
Slice(s, from, to) == SubSeq(s, from + 1, to)

\* ------------------------------------------------ @braintrust/core helpers
\* mergeRowBatch: rows of one row id are merged into one row, and the merged
\* rows are returned in buckets, one per connected component of spans. Every
\* record handed to log() here is a row of its own id, so no two rows merge;
\* the buckets are the traces, in the order of their first row.
BucketOf(rows, t) == SelectSeq(rows, LAMBDA r : r.trace = t)

RECURSIVE TraceOrder(_, _)
TraceOrder(rows, seen) ==
  IF rows = <<>> THEN <<>>
  ELSE IF Head(rows).trace \in seen THEN TraceOrder(Tail(rows), seen)
  ELSE <<Head(rows).trace>> \o TraceOrder(Tail(rows), seen \cup {Head(rows).trace})

mergeRowBatch(rows) ==
  LET order == TraceOrder(rows, {})
  IN  [k \in 1..Len(order) |-> BucketOf(rows, order[k])]

\* batchItems: greedy bin-packing of the buckets into batch sets (rounds).
\* The rows of one bucket that do not fit the batch being filled wait for the
\* next round; a batch is never left empty, so an item larger than the byte
\* budget still gets a batch of its own.
addToBatch(st, item) ==
  [st EXCEPT !.batch = Append(@, item), !.batchLen = @ + item.size]

flushBatch(st) ==
  [st EXCEPT !.batchSet = Append(@, st.batch), !.batch = <<>>, !.batchLen = 0]

ItemFits(st, item, batchMaxNumItems, batchMaxNumBytes) ==
  \/ Len(st.batch) = 0
  \/ /\ item.size + st.batchLen < batchMaxNumBytes
     /\ Len(st.batch) < batchMaxNumItems

RECURSIVE BucketLoop(_, _, _, _, _)
BucketLoop(st, bucket, i, batchMaxNumItems, batchMaxNumBytes) ==
  IF i >= Len(bucket) THEN [st |-> st, i |-> i]
  ELSE IF ItemFits(st, bucket[i + 1], batchMaxNumItems, batchMaxNumBytes)
    THEN BucketLoop(addToBatch(st, bucket[i + 1]), bucket, i + 1,
                    batchMaxNumItems, batchMaxNumBytes)
  ELSE IF i = 0
    THEN BucketLoop(addToBatch(flushBatch(st), bucket[i + 1]), bucket, i + 1,
                    batchMaxNumItems, batchMaxNumBytes)
  ELSE [st |-> st, i |-> i]

RECURSIVE BucketsLoop(_, _, _, _)
BucketsLoop(st, buckets, batchMaxNumItems, batchMaxNumBytes) ==
  IF buckets = <<>> THEN st
  ELSE LET r  == BucketLoop(st, Head(buckets), 0, batchMaxNumItems, batchMaxNumBytes)
           s1 == IF r.i < Len(Head(buckets))
                 THEN [r.st EXCEPT !.nextItems =
                         Append(@, Slice(Head(buckets), r.i, Len(Head(buckets))))]
                 ELSE r.st
           s2 == IF s1.batchLen >= batchMaxNumBytes \/ Len(s1.batch) >= batchMaxNumItems
                 THEN flushBatch(s1) ELSE s1
       IN  BucketsLoop(s2, Tail(buckets), batchMaxNumItems, batchMaxNumBytes)

RECURSIVE batchItems(_, _, _)
batchItems(buckets, batchMaxNumItems, batchMaxNumBytes) ==
  IF buckets = <<>> THEN <<>>
  ELSE LET st0 == [batchSet |-> <<>>, batch |-> <<>>, batchLen |-> 0, nextItems |-> <<>>]
           s1  == BucketsLoop(st0, buckets, batchMaxNumItems, batchMaxNumBytes)
           s2  == IF Len(s1.batch) > 0 THEN flushBatch(s1) ELSE s1
       IN  (IF Len(s2.batchSet) > 0 THEN <<s2.batchSet>> ELSE <<>>)
             \o batchItems(s2.nextItems, batchMaxNumItems, batchMaxNumBytes)

\* ------------------------------------------------------------ construction
\* constructor: numTries is BRAINTRUST_NUM_RETRIES + 1 when the variable is a number
NumTriesOf(env) == IF env = NaN THEN DefaultNumTries ELSE env + 1

\* a clock reading at which the first overflow is logged: the Unix time of a
\* run is later than the logging period after lastLoggedTimestamp = 0
ClockStart == DropLoggingPeriod + 1

\* runs of many records and flush() calls under one retry setting
ManyRecords ==
  /\ budget = [items |-> MaxItems, flushes |-> MaxFlushCalls]
  /\ numRetriesEnv = RetriesEnv
  /\ queueDropExceedingMaxsize \in {Undefined, QueueMax}
  /\ allPublishPayloadsDir = FALSE
  /\ apiConn \in {BrokenConn, 1}

\* runs of one record and one flush() call under every retry setting
OneRecord ==
  /\ budget = [items |-> 1, flushes |-> 1]
  /\ numRetriesEnv \in {NaN} \cup 0..MaxRetriesEnv
  /\ queueDropExceedingMaxsize = Undefined
  /\ allPublishPayloadsDir \in BOOLEAN
  /\ apiConn = 1

\* no span has been started
NothingTraced ==
  /\ experiment = [calledStartSpan |-> FALSE, lastStartTime |-> ClockStart]
  /\ spans = <<>>
  /\ uuids = 0
  /\ frames = {}
  /\ emitted = <<>>
  /\ lastCall = [raised |-> FALSE, op |-> "none", callback |-> "none"]

\* no drain is being batched
NothingBatched ==
  batching = [pc |-> "none", allItems |-> <<>>, batchSize |-> 0,
              maxRequestSize |-> 0, batchSets |-> <<>>]

\* no event is being validated
NothingValidated ==
  validation = [pc |-> "none", via |-> "none", given |-> <<>>, scores |-> <<>>,
                tags |-> <<>>, error |-> "none"]

\* new LazyValue(callable): nothing has been computed; `invoked` and `gets`
\* are history, the calls of the callable and of get() so far
Fresh == [hasComputed |-> FALSE, val |-> "none", invoked |-> 0, gets |-> 0]

\* nothing is exported
NothingExported ==
  /\ exportable = [kind |-> "none", computeMetadataArgs |-> FALSE]
  /\ lazy = [lazyMetadata |-> Fresh, lazyId |-> Fresh]
  /\ calls = <<>>

\* code that no traced() callback has called: started by the event loop
EventLoop == 0

NOOP_SPAN == 0

\* no traced() has been called
NothingCurrent ==
  /\ asyncStore = Undefined
  /\ running = EventLoop
  /\ callbacks = <<>>
  /\ lastRead = [by |-> EventLoop, got |-> NOOP_SPAN]

\* the eval CLI is not run
NothingEvaluated ==
  /\ cliRun = [pc |-> "none", noSendLogs |-> FALSE, watch |-> FALSE,
               threw |-> FALSE, destroying |-> 0]
  /\ cliOnce = [pc |-> "none", evaluators |-> <<>>]
  /\ handles = <<>>

\* the parts that are modelled on their own are not in use
NoParts ==
  /\ NothingBatched /\ NothingValidated /\ NothingExported /\ NothingCurrent
  /\ NothingEvaluated

\* the fields of a BackgroundLogger that has logged and flushed nothing
EmptyLogger ==
  /\ queueDropLoggingState = [numDropped |-> 0, lastLoggedTimestamp |-> 0]
  /\ clock = ClockStart
  /\ items = <<>>
  /\ activeFlush = NoPass
  /\ activeFlushResolved = TRUE
  /\ activeFlushError = NoPass
  /\ passes = {}
  /\ passCount = 0
  /\ flushCalls = <<>>
  /\ done = [id |-> NoPass, exit |-> "none", drained |-> {}, left |-> {}]
  /\ nextId = 0
  /\ stats = [accepted |-> 0, dropped |-> 0, warned |-> 0, dumped |-> 0,
              drains |-> 0, drained |-> {}, redrained |-> FALSE,
              raised |-> {}, traces |-> 0, multi |-> FALSE]

Init ==
  /\ ManyRecords \/ OneRecord
  /\ NothingTraced
  /\ NoParts
  /\ syncFlush \in BOOLEAN
  /\ failedPublishPayloadsDir \in BOOLEAN
  /\ numTries = NumTriesOf(numRetriesEnv)
  /\ EmptyLogger

\* ------------------------------------------------------------ the drain pass
\* a drain that takes a copy of the queue made before its newest record came
DrainIntoButNewest(id, queue) ==
  [id |-> id, pc |-> "unwrap", wrapped |-> SubSeq(queue, 1, Len(queue) - 1),
   i |-> 0, rounds |-> <<>>, batches |-> <<>>]

\* flushOnce up to its first await: the queue is swapped for an empty one and
\* unwrapLazyValues calls get() on every drained lazy value (try 0)
DrainInto(id, queue) ==
  [id |-> id, pc |-> "unwrap", wrapped |-> queue, i |-> 0,
   rounds |-> <<>>, batches |-> <<>>]

NoteDrain(st, queue) ==
  [st EXCEPT !.drains = @ + 1,
             !.drained = @ \cup Ids(queue),
             !.redrained = @ \/ (Ids(queue) \cap st.drained # {})]

\* a drain that forgets to swap in an empty queue
QueueKeptAfterDrain(queue) == queue

\* flushOnce: `this.items = []`, the queue the drain leaves behind
QueueAfterDrain(queue) == <<>>

\* a trigger that does not look at activeFlushResolved
MayTriggerAlways(resolved) == TRUE

\* a trigger that never starts a pass
MayTriggerNever(resolved) == FALSE

\* triggerActiveFlush: a pass starts only when none is unresolved
MayTrigger(resolved) == resolved

\* triggerActiveFlush, called with `queue` as this.items and `st` as the counters
TriggerActiveFlush(queue, st) ==
  IF MayTrigger(activeFlushResolved)
  THEN /\ activeFlushResolved' = FALSE
       /\ activeFlushError' = NoPass
       /\ passCount' = passCount + 1
       /\ activeFlush' = passCount + 1
       /\ passes' = passes \cup {DrainInto(passCount + 1, queue)}
       /\ items' = QueueAfterDrain(queue)
       /\ stats' = NoteDrain(st, queue)
  ELSE /\ items' = queue
       /\ stats' = st
       /\ UNCHANGED <<activeFlushResolved, activeFlushError, passCount,
                      activeFlush, passes>>

\* ---------------------------------------------------------------------- log
\* a count that forgets what the queue already holds
numElementsToAddIgnoringQueue(maxsize, queueLen, n) == Min(Max(maxsize, 0), n)

\* a count that lets one record too many in
numElementsToAddOneMore(maxsize, queueLen, n) ==
  Min(Max(maxsize - queueLen + 1, 0), n)

\* log(): how many of the n incoming items are appended
numElementsToAdd(maxsize, queueLen, n) == Min(Max(maxsize - queueLen, 0), n)

\* a warning that leaves the time of the last warning as it was
registerDroppedItemCountUnstamped(state, numItems, timeNow) ==
  IF numItems <= 0 THEN state
  ELSE IF timeNow - state.lastLoggedTimestamp > DropLoggingPeriod
    THEN [state EXCEPT !.numDropped = 0]
    ELSE [state EXCEPT !.numDropped = @ + numItems]

\* registerDroppedItemCount(numItems), at clock reading timeNow
registerDroppedItemCount(state, numItems, timeNow) ==
  IF numItems <= 0 THEN state
  ELSE IF timeNow - state.lastLoggedTimestamp > DropLoggingPeriod
    THEN [numDropped |-> 0, lastLoggedTimestamp |-> timeNow]
    ELSE [state EXCEPT !.numDropped = @ + numItems]

DropIsLogged(state, numItems, timeNow) ==
  numItems > 0 /\ timeNow - state.lastLoggedTimestamp > DropLoggingPeriod

\* the records of one log() call: fresh row ids, each lazy value resolving or
\* rejecting, each row in a trace (traces are numbered as they first appear)
NewItems(n, oks, trs) ==
  [k \in 1..n |-> [id |-> nextId + k, ok |-> oks[k], trace |-> trs[k],
                   size |-> ItemBytes]]

SetMax(S) == CHOOSE m \in S : \A x \in S : x <= m

Traces(n) ==
  {trs \in [1..n -> 1..NumTraces] :
     \A k \in 1..n :
       trs[k] <= SetMax({stats.traces} \cup {trs[j] : j \in 1..(k - 1)}) + 1}

Log ==
  /\ nextId < budget.items
  /\ \E n \in 1..Min(MaxLogLen, budget.items - nextId) :
     \E oks \in [1..n -> BOOLEAN] :
     \E trs \in Traces(n) :
       LET incoming == NewItems(n, oks, trs)
           toAdd    == IF queueDropExceedingMaxsize = Undefined THEN n
                       ELSE numElementsToAdd(queueDropExceedingMaxsize, Len(items), n)
           addedItems   == Slice(incoming, 0, toAdd)
           droppedItems == Slice(incoming, toAdd, n)
           nDropped     == Len(droppedItems)
           logged       == DropIsLogged(queueDropLoggingState, nDropped, clock)
           st == [stats EXCEPT
                    !.accepted = @ + Len(addedItems),
                    !.dropped = @ + nDropped,
                    !.warned = IF logged
                               THEN @ + queueDropLoggingState.numDropped + nDropped
                               ELSE @,
                    !.dumped = IF nDropped > 0 /\ (allPublishPayloadsDir
                                                   \/ failedPublishPayloadsDir)
                               THEN @ + nDropped ELSE @,
                    !.traces = SetMax({@} \cup Range(trs)),
                    !.multi = @ \/ n > 1]
       IN  /\ nextId' = nextId + n
           /\ IF ~syncFlush
              THEN TriggerActiveFlush(items \o addedItems, st)
              ELSE /\ items' = items \o addedItems
                   /\ stats' = st
                   /\ UNCHANGED <<activeFlushResolved, activeFlushError,
                                  passCount, activeFlush, passes>>
           /\ queueDropLoggingState' =
                registerDroppedItemCount(queueDropLoggingState, nDropped, clock)
  /\ UNCHANGED <<config, spanVars, partVars, clock, apiConn, flushCalls, done>>

\* -------------------------------------------------------------------- flush
\* flush() up to `await this.activeFlush`
FlushBegin ==
  /\ Len(flushCalls) < budget.flushes
  /\ IF syncFlush
     THEN TriggerActiveFlush(items, stats)
     ELSE UNCHANGED <<items, stats, activeFlushResolved, activeFlushError,
                      passCount, activeFlush, passes>>
  /\ flushCalls' = Append(flushCalls,
       [pc |-> "await", on |-> activeFlush', upto |-> nextId,
        err |-> NoPass, left |-> {}])
  /\ UNCHANGED <<config, spanVars, partVars, queueDropLoggingState, clock, apiConn, done, nextId>>

Running(id) == \E p \in passes : p.id = id

\* a flush() that throws the error and leaves it stored
ErrorKeptAfterThrow(err) == err

\* flush(): `this.activeFlushError = undefined` before the throw
ErrorAfterThrow(err) == NoPass

\* flush() after the await: the error of the pass, if any, is thrown and cleared
FlushResume(k) ==
  /\ flushCalls[k].pc = "await"
  /\ ~Running(flushCalls[k].on)
  /\ IF activeFlushError # NoPass
     THEN /\ flushCalls' = [flushCalls EXCEPT
                              ![k] = [pc |-> "threw", on |-> NoPass, upto |-> 0,
                                      err |-> activeFlushError, left |-> {}]]
          /\ activeFlushError' = ErrorAfterThrow(activeFlushError)
     ELSE /\ flushCalls' = [flushCalls EXCEPT
                              ![k] = [pc |-> "returned", on |-> NoPass, upto |-> 0,
                                      err |-> NoPass,
                                      left |-> {id \in Ids(items) :
                                                  id <= flushCalls[k].upto}]]
          /\ UNCHANGED activeFlushError
  /\ UNCHANGED <<config, spanVars, partVars, queueDropLoggingState, clock, items, apiConn,
                 activeFlush, activeFlushResolved, passes, passCount, done,
                 nextId, stats>>

\* ------------------------------------------------------- steps of a pass
\* the async body of triggerActiveFlush ends: catch stores the error, finally
\* marks the pass resolved
ExitPass(p, exit) ==
  /\ passes' = passes \ {p}
  /\ activeFlushResolved' = TRUE
  /\ activeFlushError' = IF exit = "error" THEN p.id ELSE activeFlushError
  /\ done' = [id |-> p.id, exit |-> exit, drained |-> Ids(p.wrapped),
               left |-> Ids(items)]
  /\ stats' = IF exit = "error" THEN [stats EXCEPT !.raised = @ \cup {p.id}]
              ELSE stats
  /\ UNCHANGED items

\* a submission that keeps posting on the connection the logger was built with
NewBatchOnFirstConn(rows) ==
  [rows |-> rows, pc |-> "conn", i |-> 0, conn |-> 1, attempts |-> 0,
   allWrites |-> 0, failedWrites |-> 0]

\* submitLogsRequest up to `await this.apiConn.get()`: the connection captured
\* is the lazy value this.apiConn holds at the call
NewBatch(rows) ==
  [rows |-> rows, pc |-> "conn", i |-> 0, conn |-> apiConn, attempts |-> 0,
   allWrites |-> 0, failedWrites |-> 0]

StartRound(batchSet) == [k \in 1..Len(batchSet) |-> NewBatch(batchSet[k])]

\* a retry test that is off by one
isRetryingOnceMore(i, tries) == i + 1 <= tries

\* unwrapLazyValues and submitLogsRequest: is another try coming after try i
isRetrying(i, tries) == i + 1 < tries

\* what the drained lazy values resolve to, when they all resolve
AllResolve(wrapped) == \A k \in 1..Len(wrapped) : wrapped[k].ok

\* `await Promise.all(itemPromises)` of unwrapLazyValues settles
UnwrapSettle(p) ==
  /\ p.pc = "unwrap"
  /\ IF AllResolve(p.wrapped)
     THEN LET allItems  == mergeRowBatch(p.wrapped)
              batchSets == batchItems(allItems, BatchSize, MaxRequestSize \div 2)
          IN  IF Len(allItems) = 0
              THEN ExitPass(p, "empty")
              ELSE /\ passes' = (passes \ {p}) \cup
                        {[p EXCEPT !.pc = "submit",
                                   !.batches = StartRound(Head(batchSets)),
                                   !.rounds = Tail(batchSets)]}
                   /\ UNCHANGED <<items, stats, activeFlushResolved,
                                  activeFlushError, done>>
     ELSE IF ~isRetrying(p.i, numTries) /\ syncFlush
       THEN ExitPass(p, "error")
     ELSE IF isRetrying(p.i, numTries)
       THEN /\ passes' = (passes \ {p}) \cup {[p EXCEPT !.i = @ + 1]}
            /\ UNCHANGED <<items, stats, activeFlushResolved,
                           activeFlushError, done>>
     ELSE ExitPass(p, "unresolved")
  /\ UNCHANGED <<config, spanVars, partVars, queueDropLoggingState, clock, apiConn, activeFlush,
                 passCount, flushCalls, nextId>>

\* one batch of the round in progress moves on
SetBatch(p, k, b) ==
  /\ passes' = (passes \ {p}) \cup {[p EXCEPT !.batches[k] = b]}
  /\ UNCHANGED <<items, stats, activeFlushResolved, activeFlushError, done>>

\* `await this.apiConn.get()` settles; with a connection, the payload is
\* written to allPublishPayloadsDir and attempt 0 posts to logs3
ConnSettle(p, k) ==
  /\ p.pc = "submit"
  /\ p.batches[k].pc = "conn"
  /\ IF p.batches[k].conn = BrokenConn
     THEN SetBatch(p, k, [p.batches[k] EXCEPT !.pc = "error"])
     ELSE SetBatch(p, k, [p.batches[k] EXCEPT
                            !.pc = "logs3",
                            !.attempts = 1,
                            !.allWrites = IF allPublishPayloadsDir THEN 1 ELSE 0])
  /\ UNCHANGED <<config, spanVars, partVars, queueDropLoggingState, clock, apiConn, activeFlush,
                 passCount, flushCalls, nextId>>

\* a failed post to "logs3" that is counted as a failed attempt at once
Logs3SettleNoFallback(p, k, ok) ==
  /\ p.pc = "submit"
  /\ p.batches[k].pc = "logs3"
  /\ SetBatch(p, k, IF ok THEN [p.batches[k] EXCEPT !.pc = "success"]
                    ELSE [p.batches[k] EXCEPT !.pc = "dropped", !.i = @ + 1])
  /\ UNCHANGED <<config, spanVars, partVars, queueDropLoggingState, clock, apiConn, activeFlush,
                 passCount, flushCalls, nextId>>

\* `await conn.post_json("logs3", dataStr)` settles; on failure the legacy
\* endpoint is posted to
Logs3Settle(p, k, ok) ==
  /\ p.pc = "submit"
  /\ p.batches[k].pc = "logs3"
  /\ SetBatch(p, k, [p.batches[k] EXCEPT !.pc = IF ok THEN "success" ELSE "logs"])
  /\ UNCHANGED <<config, spanVars, partVars, queueDropLoggingState, clock, apiConn, activeFlush,
                 passCount, flushCalls, nextId>>

\* a spill after every failed attempt
WritesFailedPayloadEveryAttempt(last, dir) == dir

\* submitLogsRequest: `!isRetrying && this.failedPublishPayloadsDir`
WritesFailedPayload(last, dir) == last /\ dir

\* a failed attempt that is tried again without being counted
AfterFailedAttemptUncounted(b) == [b EXCEPT !.pc = "logs3"]

\* the batch after attempt b.i has failed on both endpoints
AfterFailedAttempt(b) ==
  LET last    == ~isRetrying(b.i, numTries)
      written == [b EXCEPT !.failedWrites =
                    IF WritesFailedPayload(last, failedPublishPayloadsDir)
                    THEN @ + 1 ELSE @]
  IN  IF last /\ syncFlush THEN [written EXCEPT !.pc = "error"]
      ELSE IF ~last
        THEN [written EXCEPT !.pc = "logs3", !.i = @ + 1, !.attempts = @ + 1]
      ELSE [written EXCEPT !.pc = "dropped", !.i = @ + 1]

\* `await conn.post_json("logs", legacyDataS)` settles
LogsSettle(p, k, ok) ==
  /\ p.pc = "submit"
  /\ p.batches[k].pc = "logs"
  /\ SetBatch(p, k, IF ok THEN [p.batches[k] EXCEPT !.pc = "success"]
                    ELSE AfterFailedAttempt(p.batches[k]))
  /\ UNCHANGED <<config, spanVars, partVars, queueDropLoggingState, clock, apiConn, activeFlush,
                 passCount, flushCalls, nextId>>

\* a round that does not wait for its batches
SettledOrPending(b) == TRUE

Settled(b) == b.pc \in {"success", "dropped", "error"}

\* an aggregate that looks at the result of the first batch only
failingResultErrorsOfFirst(batches) ==
  {k \in 1..Min(1, Len(batches)) : batches[k].pc = "error"}

\* flushOnce: the results of a round that are errors, by batch
failingResultErrors(batches) ==
  {k \in 1..Len(batches) : batches[k].pc = "error"}

\* `await Promise.all(postPromises)` settles: an error of any batch is raised;
\* otherwise the next batch set starts, and after the last one the queue is
\* looked at again
FinishRound(p) ==
  /\ p.pc = "submit"
  /\ \A k \in 1..Len(p.batches) : Settled(p.batches[k])
  /\ IF failingResultErrors(p.batches) # {}
     THEN ExitPass(p, "error")
     ELSE IF p.rounds # <<>>
       THEN /\ passes' = (passes \ {p}) \cup
                 {[p EXCEPT !.batches = StartRound(Head(p.rounds)),
                            !.rounds = Tail(p.rounds)]}
            /\ UNCHANGED <<items, stats, activeFlushResolved,
                           activeFlushError, done>>
     ELSE IF Len(items) > 0
       THEN /\ passes' = (passes \ {p}) \cup {DrainInto(p.id, items)}
            /\ items' = QueueAfterDrain(items)
            /\ stats' = NoteDrain(stats, items)
            /\ UNCHANGED <<activeFlushResolved, activeFlushError, done>>
     ELSE ExitPass(p, "normal")
  /\ UNCHANGED <<config, spanVars, partVars, queueDropLoggingState, clock, apiConn, activeFlush,
                 passCount, flushCalls, nextId>>

\* ------------------------------------------------------------- environment
\* internalReplaceApiConn: this.apiConn becomes a lazy value of the new connection
InternalReplaceApiConn ==
  /\ apiConn < MaxConns
  /\ apiConn' = apiConn + 1
  /\ UNCHANGED <<config, spanVars, partVars, queueDropLoggingState, clock, items, activeFlush,
                 activeFlushResolved, activeFlushError, passes, passCount,
                 flushCalls, done, nextId, stats>>

\* a second passes. Only a reading inside the cooldown window of the last
\* overflow warning differs, to the code, from the reading after it.
Tick ==
  /\ clock < ClockStart + MaxTicks
  /\ clock - queueDropLoggingState.lastLoggedTimestamp <= DropLoggingPeriod
  /\ clock' = clock + 1
  /\ UNCHANGED <<config, spanVars, partVars, queueDropLoggingState, items, apiConn, activeFlush,
                 activeFlushResolved, activeFlushError, passes, passCount,
                 flushCalls, done, nextId, stats>>

Next ==
  \/ Log
  \/ FlushBegin
  \/ \E k \in 1..Len(flushCalls) : FlushResume(k)
  \/ \E p \in passes : UnwrapSettle(p)
  \/ \E p \in passes : \E k \in 1..Len(p.batches) : ConnSettle(p, k)
  \/ \E p \in passes : \E k \in 1..Len(p.batches) : \E ok \in BOOLEAN : Logs3Settle(p, k, ok)
  \/ \E p \in passes : \E k \in 1..Len(p.batches) : \E ok \in BOOLEAN : LogsSettle(p, k, ok)
  \/ \E p \in passes : FinishRound(p)
  \/ InternalReplaceApiConn
  \/ Tick

Spec == Init /\ [][Next]_vars

\* runs of two records and one flush() call
FewRecords ==
  /\ budget = [items |-> 2, flushes |-> 1]
  /\ numRetriesEnv = RetriesEnv
  /\ queueDropExceedingMaxsize \in {Undefined, QueueMax}
  /\ allPublishPayloadsDir = FALSE
  /\ apiConn \in {BrokenConn, 1}

FairInit ==
  /\ FewRecords
  /\ NothingTraced
  /\ NoParts
  /\ syncFlush \in BOOLEAN
  /\ failedPublishPayloadsDir = FALSE
  /\ numTries = NumTriesOf(numRetriesEnv)
  /\ EmptyLogger

\* a promise that a pass awaits settles: the resolution of the drained lazy
\* values, the connection, a post, or a whole round
PassStep ==
  \/ \E p \in passes : UnwrapSettle(p)
  \/ \E p \in passes : \E k \in 1..Len(p.batches) : ConnSettle(p, k)
  \/ \E p \in passes : \E k \in 1..Len(p.batches) : \E ok \in BOOLEAN : Logs3Settle(p, k, ok)
  \/ \E p \in passes : \E k \in 1..Len(p.batches) : \E ok \in BOOLEAN : LogsSettle(p, k, ok)
  \/ \E p \in passes : FinishRound(p)

\* the runs in which every promise a pass awaits settles in the end
FairSpec == FairInit /\ [][Next]_vars /\ WF_vars(PassStep)

\* ------------------------------------------------------------------ claims
Awaiting(k) == flushCalls[k].pc = "await"
Returned(k) == flushCalls[k].pc = "returned"
Threw(k)    == flushCalls[k].pc = "threw"

\* C1: at most one drain pass is in progress at any time: while a pass is
\* unresolved no second one starts, the pass in progress is the one
\* activeFlush is the promise of, and a flush() call that waits for a pass
\* still running waits for that one.
C1_SinglePass ==
  /\ Cardinality(passes) <= 1
  /\ (passes # {}) <=> ~activeFlushResolved
  /\ \A p \in passes : p.id = activeFlush
  /\ \A k \in 1..Len(flushCalls) :
       Awaiting(k) /\ Running(flushCalls[k].on) => flushCalls[k].on = activeFlush

\* a log() and a flush() have arrived while a pass was in flight: the record
\* waits in the queue and the flush() call waits for the pass
C1_Witness ==
  /\ passes # {}
  /\ ~syncFlush
  /\ Len(items) > 0
  /\ \E k \in 1..Len(flushCalls) : Awaiting(k) /\ flushCalls[k].on = activeFlush

\* C2 (as claimed): when flush() returns without throwing, no record whose
\* log() call returned before the flush() call began is still in the queue.
C2_FlushDrainsEarlierRecords ==
  \A k \in 1..Len(flushCalls) : Returned(k) => flushCalls[k].left = {}

\* C3 (as claimed): whenever a pass completes, on every exit path, the queue
\* is empty: what arrived while it ran has been picked up by the pass itself.
C3_PassEndsOnEmptyQueue ==
  done.exit # "none" => done.left = {}

QueueLimited == queueDropExceedingMaxsize # Undefined

\* the dropped-item count the code keeps: what the warnings have reported so
\* far plus the counter not reported yet
DroppedCount == stats.warned + queueDropLoggingState.numDropped

\* what a log() call did to the queue: the queue as it was, then the first
\* `appended` incoming records in their order; the rest is counted as dropped.
\* (When the call starts a pass, the pass has taken the queue it pushed to.)
LogAppendsPrefix ==
  nextId' # nextId =>
    LET n        == nextId' - nextId
        appended == stats'.accepted - stats.accepted
        counted  == DroppedCount' - DroppedCount
        pushed   == IF passCount' # passCount
                    THEN (CHOOSE p \in passes' : p.id = passCount').wrapped
                    ELSE items'
    IN  /\ counted = n - appended
        /\ Len(pushed) = Len(items) + appended
        /\ SubSeq(pushed, 1, Len(items)) = items
        /\ \A k \in 1..appended : pushed[Len(items) + k].id = nextId + k
        /\ ~QueueLimited => appended = n
        /\ QueueLimited =>
             /\ Len(pushed) <= queueDropExceedingMaxsize
             /\ appended < n => Len(items) + appended + 1 > queueDropExceedingMaxsize

\* C4: with a maximum queue size the queue never holds more than that many
\* records; log() appends the longest prefix of its records that fits, leaves
\* the queued records as they are, and counts the rest as dropped.
C4_QueueNeverExceedsMax ==
  /\ [](QueueLimited => Len(items) <= queueDropExceedingMaxsize)
  /\ [][LogAppendsPrefix]_vars

\* one log() call of several records filled the queue and dropped the rest
C4_Witness ==
  /\ QueueLimited
  /\ stats.multi
  /\ Len(items) = queueDropExceedingMaxsize
  /\ stats.accepted > 0
  /\ DroppedCount > 0

\* C5 (as claimed): N one-item records logged into a logger of maximum queue
\* size M < N before any pass has finished: at most M accepted for flushing
\* and exactly N - M counted as dropped, in either mode.
C5_DropsAllButMax ==
  (QueueLimited /\ ~stats.multi /\ done.exit = "none"
                /\ nextId > queueDropExceedingMaxsize)
    => /\ stats.accepted <= queueDropExceedingMaxsize
       /\ DroppedCount = nextId - queueDropExceedingMaxsize

\* C5 (amended): the count holds while no drain has taken records from the
\* queue; in asynchronous mode the first log() starts a pass that drains its
\* record at once, so with that one drain M + 1 records are accepted and
\* N - M - 1 dropped.
C5_DropsAllButMaxUndrained ==
  (QueueLimited /\ ~stats.multi /\ queueDropExceedingMaxsize >= 1)
    => /\ (stats.drains = 0 /\ nextId > queueDropExceedingMaxsize)
            => /\ stats.accepted = queueDropExceedingMaxsize
               /\ DroppedCount = nextId - queueDropExceedingMaxsize
       /\ (~syncFlush /\ stats.drains = 1 /\ nextId > queueDropExceedingMaxsize + 1)
            => /\ stats.accepted = queueDropExceedingMaxsize + 1
               /\ DroppedCount = nextId - queueDropExceedingMaxsize - 1
       /\ (syncFlush /\ Len(flushCalls) = 0) => stats.drains = 0
       /\ (~syncFlush /\ nextId > 0) => stats.drains >= 1

\* asynchronous mode, more than M + 1 one-item records logged, one drain
C5_Witness ==
  /\ QueueLimited /\ ~stats.multi /\ ~syncFlush
  /\ queueDropExceedingMaxsize >= 1
  /\ stats.drains = 1
  /\ nextId > queueDropExceedingMaxsize + 1
  /\ DroppedCount > 0

\* the batches of the rounds in progress
Batches == UNION {Range(p.batches) : p \in passes}

\* a batch whose every post failed, on every attempt
Exhausted(b) == b.pc = "dropped" \/ (b.pc = "error" /\ b.attempts > 0)

\* the retry count as the claim reads it: the default, or the configured number
RetryCount == IF numRetriesEnv = NaN THEN DefaultNumTries ELSE numRetriesEnv

\* C6 (as claimed): a batch whose every transport call fails is attempted
\* exactly retry-count times: 3 times with retry count 3, by default or so
\* configured.
C6_AttemptsEqualRetryCount ==
  \A b \in Batches :
    (Exhausted(b) /\ RetryCount = DefaultNumTries) => b.attempts = DefaultNumTries

\* C6 (amended): a batch is attempted at most numTries times and, when every
\* transport call fails, exactly numTries times; numTries is 3 by default and
\* BRAINTRUST_NUM_RETRIES + 1 when that is set (4 attempts when set to 3).
C6_AttemptsEqualNumTries ==
  /\ numTries = (IF numRetriesEnv = NaN THEN DefaultNumTries ELSE numRetriesEnv + 1)
  /\ \A b \in Batches :
       /\ b.attempts <= numTries
       /\ Exhausted(b) => b.attempts = numTries

\* a batch has failed all its attempts with BRAINTRUST_NUM_RETRIES = 3
C6_Witness ==
  \E b \in Batches :
    Exhausted(b) /\ numRetriesEnv = DefaultNumTries /\ b.attempts = DefaultNumTries + 1

\* C7: a batch that exhausts its attempts has its payload written to the
\* failed-payload directory exactly once if one is configured, and no batch
\* has it written before its last attempt failed; the batch is dropped: its
\* records are not in the queue, and no record is drained a second time.
C7_ExhaustedBatchSpilledOnceAndDropped ==
  /\ \A b \in Batches :
       /\ Exhausted(b) => b.failedWrites = (IF failedPublishPayloadsDir THEN 1 ELSE 0)
       /\ ~Exhausted(b) => b.failedWrites = 0
       /\ Ids(b.rows) \cap Ids(items) = {}
       /\ Ids(b.rows) \subseteq stats.drained
  /\ stats.drained \cap Ids(items) = {}
  /\ ~stats.redrained

\* a batch exhausted its attempts after a retry, with the directory configured,
\* while later records wait in the queue
C7_Witness ==
  \E b \in Batches :
    /\ Exhausted(b) /\ b.attempts > 1 /\ b.failedWrites = 1
    /\ Len(items) > 0

Thrown == {flushCalls[k].err : k \in {j \in 1..Len(flushCalls) : Threw(j)}}

\* C8 (as claimed): an error raised by a pass is not lost before a flush()
\* has thrown it: it is still stored, or some flush() call threw it.
C8_ErrorNeverLost ==
  \A e \in stats.raised : e = activeFlushError \/ e \in Thrown

\* C8 (amended): an error raised by a pass is thrown by at most one flush()
\* call, which clears it; an error no flush() has thrown is discarded only by
\* the start of a later pass.
C8_ErrorThrownAtMostOnce ==
  /\ \A j, k \in 1..Len(flushCalls) :
       (Threw(j) /\ Threw(k) /\ j # k) => flushCalls[j].err # flushCalls[k].err
  /\ Thrown \subseteq stats.raised
  /\ activeFlushError # NoPass =>
       activeFlushError \in stats.raised /\ activeFlushError \notin Thrown
  /\ \A e \in stats.raised :
       (e # activeFlushError /\ e \notin Thrown) => passCount > e

\* two flush() calls waited for the one failing pass: one threw its error, the
\* other returned normally
C8_Witness ==
  /\ passCount = 1
  /\ \E j, k \in 1..Len(flushCalls) : Threw(j) /\ Returned(k)

\* C9 (as claimed): in asynchronous mode no resolution or transport failure
\* (failure to obtain the connection included) makes flush() reject.
C9_AsyncFlushNeverRejects ==
  ~syncFlush => \A k \in 1..Len(flushCalls) : ~Threw(k)

\* the records still held by the passes in progress
InPasses == UNION {Ids(p.wrapped) : p \in passes}

FailedExit == done.exit \in {"unresolved", "error"}

SameRound(p, q) ==
  /\ q.id = p.id
  /\ p.pc = "submit" /\ q.pc = "submit"
  /\ q.wrapped = p.wrapped
  /\ q.rounds = p.rounds

ReplaceStep ==
  /\ apiConn' # apiConn => items' = items /\ passes' = passes
  /\ \A p \in passes : \A q \in passes' :
       SameRound(p, q) =>
         \A k \in 1..Len(p.batches) : q.batches[k].conn = p.batches[k].conn
  /\ \A q \in passes' :
       (q.pc = "submit" /\ ~\E p \in passes : SameRound(p, q)) =>
         \A k \in 1..Len(q.batches) : q.batches[k].conn = apiConn

\* C11: replacing the connection changes neither the queue nor the passes in
\* progress; a submission keeps the connection it captured through all of its
\* attempts, and a submission that starts uses the connection the logger holds
\* at that moment, the new one after a replacement.
C11_ReplaceKeepsQueueAndCaptured == [][ReplaceStep]_vars

\* a submission retrying on the connection it captured, after the logger was
\* given another one, with records waiting in the queue
C11_Witness ==
  /\ Len(items) > 0
  /\ \E b \in Batches :
       b.conn # BrokenConn /\ b.conn # apiConn /\ b.i > 0 /\ b.pc = "logs3"

\* ===================================================================== spans
\* The tracing API of js/src/logger.ts on top of the background logger:
\* SpanImpl (constructor, log, setAttributes, end, startSpan), the parent
\* tokens of startSpanParentArgs and the Experiment the spans belong to. The
\* logger is in synchronous-flush mode with no queue bound, so that a record
\* handed to bgLogger().log() stays in the queue until a flush() takes it.

\* ------------------------------------------------------------------ bounds
\* SpanImpl objects constructed over a run
MaxSpans == 3
\* records handed to the background logger over a run
MaxRecords == 4
\* the largest end time a caller supplies, and the last reading of the clock
MaxEndTime == 2

\* ------------------------------------------------------- program constants
\* an id the caller supplies as event.id
CallerId == 100
\* the object id this.lazyId of the experiment resolves to
ExperimentId == 1
\* the object id of some other experiment or project
OtherId == 2
\* the Experiment, as the object a call is made on (spans are numbered from 1)
TheExperiment == 0

ObjectTypes == {"experiment", "project_logs"}

\* ------------------------------------------------------------------ inputs
\* an event with nothing in it
Plain ==
  [id |-> Undefined, scores |-> "absent", tags |-> <<>>, end |-> Undefined,
   error |-> FALSE]

\* the events handed to log(): scores inside or outside [0, 1], a tag, an
\* end time in metrics.end
Events ==
  {Plain, [Plain EXCEPT !.scores = "inRange"], [Plain EXCEPT !.scores = "outOfRange"],
   [Plain EXCEPT !.tags = <<"t">>], [Plain EXCEPT !.end = MaxEndTime]}

\* the events handed to startSpan(): nothing, an id, a tag, a score outside [0, 1]
CreateEvents ==
  {Plain, [Plain EXCEPT !.id = CallerId], [Plain EXCEPT !.tags = <<"t">>],
   [Plain EXCEPT !.scores = "outOfRange"]}

\* args.parent is undefined
NoParent == [objectType |-> "none", objectId |-> Undefined, rowIds |-> <<>>]

\* SpanImpl.export(): the token of a span, once its object id has resolved
Exported(span) ==
  [objectType |-> span.parentObjectType, objectId |-> span.parentObjectId.id,
   rowIds |-> <<[rowId |-> span.id, spanId |-> span.spanId,
                 rootSpanId |-> span.rootSpanId]>>]

\* the row ids a token can carry: none, or those of a span
RowIds == {<<>>} \cup {Exported(spans[k]).rowIds : k \in 1..Len(spans)}

\* the parent tokens a caller can hold: of a project's logs, or of this
\* experiment or another one, without row ids or with those of a span
ParentTokens ==
  {[objectType |-> "project_logs", objectId |-> ExperimentId, rowIds |-> <<>>]}
    \cup {[objectType |-> "experiment", objectId |-> o, rowIds |-> r] :
            o \in {ExperimentId, OtherId}, r \in RowIds}

StartArgs ==
  {[parent |-> NoParent, event |-> e] : e \in CreateEvents}
    \cup {[parent |-> t, event |-> Plain] : t \in ParentTokens}

\* ------------------------------------------------------------- logInternal
\* validateAndSanitizeExperimentLogPartialArgs: does the event pass
Sanitizes(event) == event.scores # "outOfRange"

\* mergeDicts(internalData) then mergeDicts(sanitized): the event's
\* metrics.end overrides the one of internalData
MergedEnd(event, internalEnd) ==
  IF event.end # Undefined THEN event.end ELSE internalEnd

\* JavaScript truthiness of a number | undefined
Truthy(v) == v # Undefined /\ v # 0

\* `(partialRecord.tags ?? []).length > 0 && this.spanParents?.length`
TagsRejected(tags, spanParents) == Len(tags) > 0 /\ Len(spanParents) > 0

\* partialRecord, and what its lazy value computeRecord does when resolved
SpanRecord(span, op, event, end, ret) ==
  [id |-> span.id, span_id |-> span.spanId, root_span_id |-> span.rootSpanId,
   span_parents |-> span.spanParents, is_merge |-> span.isMerge,
   scores |-> event.scores # "absent", tags |-> event.tags, end |-> end,
   error |-> event.error, comment |-> FALSE,
   ok |-> span.parentObjectId.ok, op |-> op, ret |-> ret]

\* a logInternal that checks the tags only after the record is queued
logInternalQueueingFirst(span, op, event, internalEnd, ret) ==
  IF ~Sanitizes(event)
  THEN [raised |-> TRUE, span |-> span, records |-> <<>>]
  ELSE [raised |-> TagsRejected(event.tags, span.spanParents), span |-> span,
        records |-> <<SpanRecord(span, op, event, MergedEnd(event, internalEnd), ret)>>]

\* logInternal on `span`, called by `op`, which returns `ret` to its caller
logInternal(span, op, event, internalEnd, ret) ==
  IF ~Sanitizes(event)
  THEN [raised |-> TRUE, span |-> span, records |-> <<>>]
  ELSE LET end  == MergedEnd(event, internalEnd)
           seen == IF Truthy(end) THEN [span EXCEPT !.loggedEndTime = end]
                   ELSE span
       IN  IF TagsRejected(event.tags, span.spanParents)
           THEN [raised |-> TRUE, span |-> seen, records |-> <<>>]
           ELSE [raised |-> FALSE, span |-> seen,
                 records |-> <<SpanRecord(span, op, event, end, ret)>>]

\* ------------------------------------------------------------- construction
\* startSpanParentArgs
startSpanParentArgs(parent, parentObjectType, parentObjectId, parentSpanIds) ==
  IF parent # NoParent
  THEN IF parentSpanIds # <<>> \/ parentObjectType # parent.objectType
       THEN [raised |-> TRUE]
       ELSE [raised |-> FALSE,
             parentObjectType |-> parentObjectType,
             parentObjectId |->
               [id |-> parentObjectId.id,
                ok |-> parentObjectId.ok /\ parentObjectId.id = parent.objectId],
             parentSpanIds |->
               [k \in 1..Len(parent.rowIds) |->
                  [spanId |-> parent.rowIds[k].spanId,
                   rootSpanId |-> parent.rowIds[k].rootSpanId]]]
  ELSE [raised |-> FALSE, parentObjectType |-> parentObjectType,
        parentObjectId |-> parentObjectId, parentSpanIds |-> parentSpanIds]

\* a root id taken from the parent span itself
RootSpanIdOfParent(parentSpanIds, spanId) ==
  IF parentSpanIds # <<>> THEN parentSpanIds[1].spanId ELSE spanId

\* constructor: this.rootSpanId
RootSpanIdOf(parentSpanIds, spanId) ==
  IF parentSpanIds # <<>> THEN parentSpanIds[1].rootSpanId ELSE spanId

\* a constructor that forgets the parent
SpanParentsForgotten(parentSpanIds) == <<>>

\* constructor: this.spanParents (undefined is the empty list)
SpanParentsOf(parentSpanIds) ==
  IF parentSpanIds # <<>> THEN <<parentSpanIds[1].spanId>> ELSE <<>>

\* a constructor that leaves isMerge as it was for the first record
isMergeNeverSet == FALSE

\* constructor: `this.isMerge = true` after the first logInternal
isMergeAfterCreate == TRUE

\* new SpanImpl(args): the ids, the first record. The uuids of an object whose
\* constructor raises are seen by nobody.
NewSpanImpl(pa, event) ==
  LET given  == event.id # Undefined
      id     == IF given THEN event.id ELSE uuids + 1
      spanId == IF given THEN uuids + 1 ELSE uuids + 2
      obj    == [id |-> id, spanId |-> spanId,
                 rootSpanId |-> RootSpanIdOf(pa.parentSpanIds, spanId),
                 spanParents |-> SpanParentsOf(pa.parentSpanIds),
                 isMerge |-> FALSE, loggedEndTime |-> Undefined,
                 parentObjectType |-> pa.parentObjectType,
                 parentObjectId |-> pa.parentObjectId,
                 root |-> FALSE, parent |-> TheExperiment]
      r      == logInternal(obj, "constructor", [event EXCEPT !.id = Undefined],
                            Undefined, Undefined)
  IN  [raised |-> r.raised,
       made |-> IF r.raised THEN <<>>
                ELSE <<[r.span EXCEPT !.isMerge = isMergeAfterCreate]>>,
       records |-> r.records,
       uuids |-> IF r.raised THEN uuids ELSE spanId]

\* Experiment.startSpanImpl and SpanImpl.startSpan: what the constructor gets
ParentArgsOf(on, parent) ==
  IF on = TheExperiment
  THEN startSpanParentArgs(parent, "experiment",
                           [id |-> ExperimentId, ok |-> TRUE], <<>>)
  ELSE startSpanParentArgs(parent, spans[on].parentObjectType,
                           spans[on].parentObjectId,
                           IF parent # NoParent THEN <<>>
                           ELSE <<[spanId |-> spans[on].spanId,
                                   rootSpanId |-> spans[on].rootSpanId]>>)

startSpanImpl(on, args) ==
  LET pa == ParentArgsOf(on, args.parent)
  IN  IF pa.raised
      THEN [raised |-> TRUE, made |-> <<>>, records |-> <<>>, uuids |-> uuids]
      ELSE NewSpanImpl(pa, args.event)

\* --------------------------------------------------------------- the calls
\* bgLogger().log(records) in synchronous-flush mode with no queue bound
bgLog(records) ==
  /\ items' = items \o records
  /\ emitted' = emitted \o records

\* the call returns or raises; of a call that raised the name is kept
Ended(op, raised) ==
  lastCall' = [raised |-> raised, op |-> IF raised THEN op ELSE "none",
               callback |-> "none"]

\* everything of the logger but its queue and the clock
pipeline ==
  <<config, queueDropLoggingState, apiConn, activeFlush, activeFlushResolved,
    activeFlushError, passes, passCount, flushCalls, done, nextId, stats>>

\* history, kept in the span object: was it started as a root (on the
\* experiment, or under a token without row ids), and on which span was it
\* started without a token
StartedAs(made, on, args) ==
  [k \in 1..Len(made) |->
     [made[k] EXCEPT
        !.root = IF args.parent = NoParent THEN on = TheExperiment
                 ELSE args.parent.rowIds = <<>>,
        !.parent = IF args.parent = NoParent THEN on ELSE TheExperiment]]

\* Experiment.startSpan(args) and SpanImpl.startSpan(args)
StartSpan(on, args) ==
  /\ Len(spans) < budget.spans
  /\ Len(emitted) < budget.records
  /\ LET r == startSpanImpl(on, args)
     IN  /\ spans' = spans \o StartedAs(r.made, on, args)
         /\ uuids' = r.uuids
         /\ bgLog(r.records)
         /\ Ended("startSpan", r.raised)
  /\ experiment' = IF on = TheExperiment
                   THEN [experiment EXCEPT !.calledStartSpan = TRUE]
                   ELSE experiment
  /\ UNCHANGED <<pipeline, partVars, clock, frames>>

\* SpanImpl.log(event)
SpanLog(a, event) ==
  /\ Len(emitted) < budget.records
  /\ LET r == logInternal(spans[a], "log", event, Undefined, Undefined)
     IN  /\ spans' = [spans EXCEPT ![a] = r.span]
         /\ bgLog(r.records)
         /\ Ended("log", r.raised)
  /\ UNCHANGED <<pipeline, partVars, clock, experiment, uuids, frames>>

\* SpanImpl.setAttributes(args)
SetAttributes(a) ==
  /\ Len(emitted) < budget.records
  /\ LET r == logInternal(spans[a], "setAttributes", Plain, Undefined, Undefined)
     IN  /\ spans' = [spans EXCEPT ![a] = r.span]
         /\ bgLog(r.records)
         /\ Ended("setAttributes", r.raised)
  /\ UNCHANGED <<pipeline, partVars, clock, experiment, uuids, frames>>

\* SpanImpl.end(args) on `span`, with getCurrentUnixTimestamp() reading `now`
end(span, endTimeArg, now) ==
  LET fresh   == ~Truthy(span.loggedEndTime)
      endTime == IF ~fresh THEN span.loggedEndTime
                 ELSE IF endTimeArg # Undefined THEN endTimeArg ELSE now
  IN  logInternal(span, "end", Plain, IF fresh THEN endTime ELSE Undefined,
                  endTime)

\* the end times a caller passes and the clock readings that go with them
EndArgs ==
  {[endTime |-> Undefined, now |-> t] : t \in clock..MaxEndTime}
    \cup {[endTime |-> t, now |-> clock] : t \in {0, MaxEndTime}}

SpanEnd(a, args) ==
  /\ Len(emitted) < budget.records
  /\ LET r == end(spans[a], args.endTime, args.now)
     IN  /\ spans' = [spans EXCEPT ![a] = r.span]
         /\ bgLog(r.records)
         /\ Ended("end", r.raised)
  /\ clock' = args.now
  /\ UNCHANGED <<pipeline, partVars, experiment, uuids, frames>>

\* SpanImpl.logFeedback(event) -> logFeedbackImpl: the feedback events are a
\* source, scores, tags and a comment (VALID_SOURCES holds "external")
NoFeedback ==
  [source |-> "external", scores |-> "absent", tags |-> <<>>, comment |-> FALSE]

FeedbackEvents ==
  {NoFeedback, [NoFeedback EXCEPT !.source = "bogus", !.comment = TRUE],
   [NoFeedback EXCEPT !.scores = "inRange"],
   [NoFeedback EXCEPT !.scores = "outOfRange"],
   [NoFeedback EXCEPT !.tags = <<"t">>], [NoFeedback EXCEPT !.comment = TRUE],
   [NoFeedback EXCEPT !.scores = "inRange", !.comment = TRUE]}

\* a record that is not built by logInternal: no span ids
RowRecord(id, op, event, isMerge, comment, ok) ==
  [id |-> id, span_id |-> Undefined, root_span_id |-> Undefined,
   span_parents |-> <<>>, is_merge |-> isMerge,
   scores |-> event.scores # "absent", tags |-> event.tags, end |-> event.end,
   error |-> FALSE, comment |-> comment, ok |-> ok, op |-> op, ret |-> Undefined]

\* logFeedbackImpl(state, parentObjectType, parentObjectId, {id, ...event})
logFeedbackImpl(parentObjectId, id, fb) ==
  LET event == [Plain EXCEPT !.scores = fb.scores, !.tags = fb.tags]
      update == IF fb.scores # "absent" \/ Len(fb.tags) > 0
                THEN <<RowRecord(id, "logFeedback", event, TRUE, FALSE,
                                 parentObjectId.ok)>>
                ELSE <<>>
      note   == IF fb.comment
                THEN <<RowRecord(uuids + 1, "logFeedback", Plain, FALSE, TRUE,
                                 parentObjectId.ok)>>
                ELSE <<>>
  IN  IF fb.source # "external" THEN [raised |-> TRUE, records |-> <<>>]
      ELSE IF fb.scores = "absent" /\ Len(fb.tags) = 0 /\ ~fb.comment
        THEN [raised |-> TRUE, records |-> <<>>]
      ELSE IF ~Sanitizes(event) THEN [raised |-> TRUE, records |-> <<>>]
      ELSE [raised |-> FALSE, records |-> update \o note]

SpanLogFeedback(a, fb) ==
  /\ Len(emitted) + 2 <= budget.records
  /\ LET r == logFeedbackImpl(spans[a].parentObjectId, spans[a].id, fb)
     IN  /\ bgLog(r.records)
         /\ uuids' = IF ~r.raised /\ fb.comment THEN uuids + 1 ELSE uuids
         /\ Ended("logFeedback", r.raised)
  /\ UNCHANGED <<pipeline, partVars, clock, experiment, spans, frames>>

\* the row a token names, if it names one
RowIdOf(token) ==
  IF token.rowIds = <<>> THEN Undefined ELSE token.rowIds[1].rowId

\* an updateSpan() that does not look for the row id
UpdateSpanOfAnyToken(token, event) ==
  /\ Len(emitted) < budget.records
  /\ LET raised == ~Sanitizes(event)
     IN  /\ bgLog(IF raised THEN <<>>
                  ELSE <<RowRecord(RowIdOf(token), "updateSpan", event,
                                   TRUE, FALSE, TRUE)>>)
         /\ Ended("updateSpan", raised)
  /\ UNCHANGED <<pipeline, partVars, clock, experiment, spans, uuids, frames>>

\* updateSpan({exported, ...event}) -> updateSpanImpl
UpdateSpan(token, event) ==
  /\ Len(emitted) < budget.records
  /\ LET raised == token.rowIds = <<>> \/ ~Sanitizes(event)
     IN  /\ bgLog(IF raised THEN <<>>
                  ELSE <<RowRecord(RowIdOf(token), "updateSpan", event,
                                   TRUE, FALSE, TRUE)>>)
         /\ Ended("updateSpan", raised)
  /\ UNCHANGED <<pipeline, partVars, clock, experiment, spans, uuids, frames>>

\* startSpanAndIsLogger(args), the top-level startSpan(): with a parent token
\* the span is built on the object the token names; without one it is
\* started on the current experiment
startSpanAndIsLogger(args) ==
  IF args.parent # NoParent
  THEN NewSpanImpl([raised |-> FALSE,
                    parentObjectType |-> args.parent.objectType,
                    parentObjectId |-> [id |-> args.parent.objectId, ok |-> TRUE],
                    parentSpanIds |->
                      [k \in 1..Len(args.parent.rowIds) |->
                         [spanId |-> args.parent.rowIds[k].spanId,
                          rootSpanId |-> args.parent.rowIds[k].rootSpanId]]],
                   args.event)
  ELSE startSpanImpl(TheExperiment, args)

\* the arguments of Experiment.log(event, options): an event with or without
\* the fields a full event must have, with scores in or out of range
ExperimentLogArgs ==
  [complete : BOOLEAN, scores : {"absent", "inRange", "outOfRange"},
   allowConcurrentWithSpans : BOOLEAN]

\* validateAndSanitizeExperimentLogFullArgs: does the event pass
IsFullEvent(args) == args.complete /\ args.scores # "absent"

\* an Experiment.log() that does not look at calledStartSpan
ExperimentLogAmongSpans(args, now) ==
  /\ Len(spans) < budget.spans
  /\ Len(emitted) + 2 <= budget.records
  /\ IF ~IsFullEvent(args)
     THEN /\ Ended("Experiment.log", TRUE)
          /\ UNCHANGED <<items, emitted, spans, uuids, experiment, clock>>
     ELSE LET r == startSpanImpl(TheExperiment,
                     [parent |-> NoParent,
                      event |-> [Plain EXCEPT !.scores = args.scores]])
          IN  IF r.raised
              THEN /\ Ended("Experiment.log", TRUE)
                   /\ UNCHANGED <<items, emitted, spans, uuids, experiment, clock>>
              ELSE LET e == end(r.made[1], Undefined, now)
                   IN  /\ spans' = spans \o
                            StartedAs(<<e.span>>, TheExperiment,
                                      [parent |-> NoParent])
                       /\ uuids' = r.uuids
                       /\ bgLog(r.records \o e.records)
                       /\ experiment' = [experiment EXCEPT !.lastStartTime = now]
                       /\ clock' = now
                       /\ Ended("Experiment.log", FALSE)
  /\ UNCHANGED <<pipeline, partVars, frames>>

\* Experiment.log(event, options): a root span is started with the event and
\* ended at once
ExperimentLog(args, now) ==
  /\ Len(spans) < budget.spans
  /\ Len(emitted) + 2 <= budget.records
  /\ IF (experiment.calledStartSpan /\ ~args.allowConcurrentWithSpans)
        \/ ~IsFullEvent(args)
     THEN /\ Ended("Experiment.log", TRUE)
          /\ UNCHANGED <<items, emitted, spans, uuids, experiment, clock>>
     ELSE LET r == startSpanImpl(TheExperiment,
                     [parent |-> NoParent,
                      event |-> [Plain EXCEPT !.scores = args.scores]])
          IN  IF r.raised
              THEN /\ Ended("Experiment.log", TRUE)
                   /\ UNCHANGED <<items, emitted, spans, uuids, experiment, clock>>
              ELSE LET e == end(r.made[1], Undefined, now)
                   IN  /\ spans' = spans \o
                            StartedAs(<<e.span>>, TheExperiment,
                                      [parent |-> NoParent])
                       /\ uuids' = r.uuids
                       /\ bgLog(r.records \o e.records)
                       /\ experiment' = [experiment EXCEPT !.lastStartTime = now]
                       /\ clock' = now
                       /\ Ended("Experiment.log", FALSE)
  /\ UNCHANGED <<pipeline, partVars, frames>>

\* ------------------------------------------------------------------ traced
\* runCatchFinally(f, catchF, finallyF) of ./util: the handlers that run once
\* f has thrown (or its promise has rejected) or has returned, in order
runCatchFinally(threw) ==
  IF threw THEN <<"catchF", "finallyF">> ELSE <<"finallyF">>

\* an error handler that logs nothing
logErrorSkipped(span) == [raised |-> FALSE, span |-> span, records |-> <<>>]

\* logError(span, error): span.log({ error })
logError(span) ==
  logInternal(span, "log", [Plain EXCEPT !.error = TRUE], Undefined, Undefined)

\* the arguments of traced(): nothing, or an event with a tag
TracedArgs ==
  {[parent |-> NoParent, event |-> e] :
     e \in {Plain, [Plain EXCEPT !.tags = <<"t">>]}}

\* Experiment.traced(callback, args) and SpanImpl.traced(callback, args), up
\* to the call of the callback
TracedBegin(on, args) ==
  /\ Len(spans) < budget.spans
  /\ Len(emitted) < budget.records
  /\ LET r == startSpanImpl(on, args)
     IN  /\ spans' = spans \o StartedAs(r.made, on, args)
         /\ uuids' = r.uuids
         /\ bgLog(r.records)
         /\ frames' = IF r.raised THEN frames ELSE frames \cup {Len(spans) + 1}
         /\ lastCall' = IF r.raised
                        THEN [raised |-> TRUE, op |-> "traced", callback |-> "none"]
                        ELSE [raised |-> FALSE, op |-> "none", callback |-> "running"]
  /\ experiment' = IF on = TheExperiment
                   THEN [experiment EXCEPT !.calledStartSpan = TRUE]
                   ELSE experiment
  /\ UNCHANGED <<pipeline, partVars, clock>>

\* the callback of the traced() that started span k returns or throws:
\* (e) => { logError(span, e); throw e }, then () => span.end()
TracedExit(k, threw, now) ==
  /\ k \in frames
  /\ Len(emitted) + 2 <= budget.records
  /\ LET handlers == Range(runCatchFinally(threw))
         caught   == IF "catchF" \in handlers THEN logError(spans[k])
                     ELSE [raised |-> FALSE, span |-> spans[k], records |-> <<>>]
         ended    == IF "finallyF" \in handlers THEN end(caught.span, Undefined, now)
                     ELSE [raised |-> FALSE, span |-> caught.span, records |-> <<>>]
     IN  /\ spans' = [spans EXCEPT ![k] = ended.span]
         /\ bgLog(caught.records \o ended.records)
         /\ lastCall' = [raised |-> threw, op |-> "none",
                         callback |-> IF threw THEN "threw" ELSE "returned"]
  /\ frames' = frames \ {k}
  /\ clock' = now
  /\ UNCHANGED <<pipeline, partVars, experiment, uuids>>

\* ------------------------------------------------------------ specification
\* runs that build a tree of spans and log nothing more to it
ManySpans ==
  budget = [items |-> 0, flushes |-> 1, spans |-> MaxSpans, records |-> MaxSpans]

\* runs that log to a span and to a span started from it
FewSpans ==
  budget = [items |-> 0, flushes |-> 1, spans |-> MaxSpans - 1,
            records |-> MaxRecords]

\* a logger in synchronous-flush mode that is flushed at most once, and an
\* experiment nothing has been logged to
SpanInit ==
  /\ ManySpans \/ FewSpans
  /\ syncFlush = TRUE
  /\ numRetriesEnv = NaN
  /\ numTries = NumTriesOf(numRetriesEnv)
  /\ queueDropExceedingMaxsize = Undefined
  /\ failedPublishPayloadsDir = FALSE
  /\ allPublishPayloadsDir = FALSE
  /\ apiConn = 1
  /\ EmptyLogger
  /\ NothingTraced
  /\ NoParts

SpanNext ==
  \/ \E on \in {TheExperiment} \cup (1..Len(spans)) : \E args \in StartArgs :
       StartSpan(on, args)
  \/ \E a \in 1..Len(spans) : \E event \in Events : SpanLog(a, event)
  \/ \E a \in 1..Len(spans) : SetAttributes(a)
  \/ \E a \in 1..Len(spans) : \E args \in EndArgs : SpanEnd(a, args)
  \/ \E a \in 1..Len(spans) : \E fb \in FeedbackEvents : SpanLogFeedback(a, fb)
  \/ \E rowIds \in RowIds : \E event \in Events :
       UpdateSpan([objectType |-> "experiment", objectId |-> ExperimentId,
                   rowIds |-> rowIds], event)
  \/ \E args \in ExperimentLogArgs : \E now \in clock..MaxEndTime :
       ExperimentLog(args, now)
  \/ \E on \in {TheExperiment} \cup (1..Len(spans)) : \E args \in TracedArgs :
       TracedBegin(on, args)
  \/ \E k \in frames : \E threw \in BOOLEAN : \E now \in clock..MaxEndTime :
       TracedExit(k, threw, now)
  \/ FlushBegin

SpanSpec == SpanInit /\ [][SpanNext]_vars

\* ------------------------------------------------------- claims about spans
\* the records span k has handed to the logger, in order
RecordsOf(k) == SelectSeq(emitted, LAMBDA r : r.span_id = spans[k].spanId)

UpdateOps == {"log", "setAttributes", "end"}

\* span k is a root span with the caller's id that logged scores and ended
LoggedScoresAndEnded(k) ==
  /\ spans[k].root
  /\ spans[k].id = CallerId
  /\ Len(RecordsOf(k)) = 3
  /\ RecordsOf(k)[2].op = "log" /\ RecordsOf(k)[2].scores
  /\ RecordsOf(k)[3].op = "end"

\* C12: the first record of every span is the one of its constructor and has
\* is_merge = false, every later record comes from log(), setAttributes() or
\* end() and has is_merge = true, and all carry the span's id, span_id and
\* root_span_id. Until a flush() the queue holds the records in that order;
\* for a root span with the caller's id that logs scores and ends these are a
\* create record with span_id = root_span_id, a merge record with the scores
\* and a merge record with metrics.end.
C12_CreateThenMerges ==
  /\ flushCalls = <<>> => items = emitted
  /\ \A k \in 1..Len(spans) :
       LET rs == RecordsOf(k)
       IN  /\ Len(rs) >= 1
           /\ rs[1].op = "constructor" /\ ~rs[1].is_merge
           /\ \A j \in 2..Len(rs) : rs[j].op \in UpdateOps /\ rs[j].is_merge
           /\ \A j \in 1..Len(rs) :
                /\ rs[j].id = spans[k].id
                /\ rs[j].root_span_id = spans[k].rootSpanId
           /\ LoggedScoresAndEnded(k) =>
                /\ rs[1].span_id = rs[1].root_span_id
                /\ ~rs[1].scores /\ rs[1].end = Undefined
                /\ rs[2].end = Undefined
                /\ rs[3].end # Undefined /\ ~rs[3].scores

\* the root span with id "a" has logged scores and ended, and nothing was flushed
C12_Witness ==
  /\ flushCalls = <<>>
  /\ Len(items) = 3
  /\ \E k \in 1..Len(spans) : LoggedScoresAndEnded(k)

\* the records end() calls on span k have produced
EndRecordsOf(k) == SelectSeq(RecordsOf(k), LAMBDA r : r.op = "end")

\* C13: only the first end() on a span enqueues a record: no span has two
\* records that come from end().
C13_SecondEndEnqueuesNothing ==
  \A k \in 1..Len(spans) : Len(EndRecordsOf(k)) <= 1

\* C14: all end() calls on one span return the same timestamp, and at most
\* one of the records they enqueue carries metrics.end.
C14_EndReturnsSameTimeOnce ==
  \A k \in 1..Len(spans) :
    LET es == EndRecordsOf(k)
    IN  /\ \A i, j \in 1..Len(es) : es[i].ret = es[j].ret
        /\ Cardinality({j \in 1..Len(es) : es[j].end # Undefined}) <= 1

\* the span object a record came from
SpanOf(r) == CHOOSE k \in 1..Len(spans) : spans[k].spanId = r.span_id

SpanRecords == {r \in Range(emitted) : r.op \in UpdateOps \cup {"constructor"}}

\* C15: in every record of every span, root_span_id = span_id exactly when the
\* span was started as a root, and span_parents is empty exactly when it was;
\* the record of a span that is not a root names one parent.
C15_RootIffOwnRootId ==
  \A r \in SpanRecords :
    /\ (r.root_span_id = r.span_id) <=> spans[SpanOf(r)].root
    /\ (r.span_parents = <<>>) <=> spans[SpanOf(r)].root
    /\ ~spans[SpanOf(r)].root => Len(r.span_parents) >= 1

\* a root span and a span started under the row ids of a token, both logged to
C15_Witness ==
  \E a, b \in 1..Len(spans) :
    /\ spans[a].root /\ ~spans[b].root
    /\ spans[b].parent = TheExperiment
    /\ Len(RecordsOf(a)) >= 1 /\ Len(RecordsOf(b)) >= 2

\* the span at the top of the tree span k was started in
RECURSIVE TopOf(_)
TopOf(k) == IF spans[k].parent = TheExperiment THEN k ELSE TopOf(spans[k].parent)

\* C16: every record of a span B started on a span A without a parent token
\* has A's root_span_id and span_parents = [A.span_id], whether or not A's
\* create record has been flushed, so that all the spans of one tree carry
\* the root_span_id of the span at its top.
C16_ChildSharesRoot ==
  \A k \in 1..Len(spans) :
    spans[k].parent # TheExperiment =>
      \A j \in 1..Len(RecordsOf(k)) :
        /\ RecordsOf(k)[j].root_span_id = spans[spans[k].parent].rootSpanId
        /\ RecordsOf(k)[j].span_parents = <<spans[spans[k].parent].spanId>>
        /\ RecordsOf(k)[j].root_span_id = spans[TopOf(k)].rootSpanId

\* a span, its child and its grandchild, all started before any flush()
C16_Witness ==
  /\ flushCalls = <<>>
  /\ \E a, b, c \in 1..Len(spans) :
       /\ spans[b].parent = a /\ spans[c].parent = b
       /\ Len(RecordsOf(c)) >= 1
       /\ RecordsOf(a)[1] \in Range(items)

\* C17: no record of a construction, a log() or a logFeedback() carries tags
\* unless the row it is written to is that of a root span.
C17_NoTagsOnNonRoot ==
  \A r \in Range(emitted) :
    (r.op \in {"constructor", "log", "logFeedback"} /\ Len(r.tags) > 0) =>
      \E k \in 1..Len(spans) : spans[k].id = r.id /\ spans[k].root

\* a call of the tracing API, other than the exit of a traced() whose
\* callback threw, has raised in this step
CallRaised ==
  /\ lastCall'.raised
  /\ lastCall'.callback = "none"
  /\ flushCalls' = flushCalls

\* C18: a span construction, log(), setAttributes(), logFeedback(),
\* updateSpan() or Experiment.log() that raises has added nothing to the queue:
\* the queue after the call is the queue before it.
C18_RaisedCallQueuesNothing ==
  [][CallRaised => items' = items /\ emitted' = emitted]_vars

\* a logFeedback() has raised while records of two spans wait in the queue
C18_Witness ==
  /\ lastCall.raised
  /\ lastCall.op = "logFeedback"
  /\ Len(items) >= 2
  /\ Len(spans) >= 2

\* C19: a parent token of another object type or another object id makes
\* startSpan() raise: no span is ever built on a deferred object id that
\* fails to resolve, and no record of such a span is queued.
C19_MismatchRaisedAtStart ==
  /\ \A k \in 1..Len(spans) : spans[k].parentObjectId.ok
  /\ \A r \in Range(emitted) : r.ok

\* the records the step has handed to the logger
NewRecords == SubSeq(emitted', Len(emitted) + 1, Len(emitted'))

\* the exit of the traced() that started span k: the end record of the span
\* is the last one enqueued and the only one that comes from end(); when the
\* callback threw, the record of the error comes just before it and the error is
\* raised again
TracedExitStep(k) ==
  LET new  == NewRecords
      last == new[Len(new)]
  IN  /\ lastCall'.callback \in {"threw", "returned"}
      /\ Len(new) = IF lastCall'.callback = "threw" THEN 2 ELSE 1
      /\ last.op = "end" /\ last.span_id = spans[k].spanId /\ ~last.error
      /\ ~Truthy(spans[k].loggedEndTime) => last.end # Undefined
      /\ lastCall'.raised <=> lastCall'.callback = "threw"
      /\ lastCall'.callback = "threw" =>
           /\ new[1].error
           /\ new[1].span_id = spans[k].spanId
           /\ new[1].op = "log"

RowlessTokens ==
  {[objectType |-> ty, objectId |-> ExperimentId, rowIds |-> <<>>] :
     ty \in ObjectTypes}

\* a span object and its first record are those of a new root
IsNewRoot(r) ==
  /\ Len(r.made) = 1 /\ Len(r.records) = 1
  /\ r.made[1].spanId = r.made[1].rootSpanId
  /\ r.made[1].spanParents = <<>>
  /\ r.records[1].span_id = r.records[1].root_span_id
  /\ r.records[1].span_parents = <<>>
  /\ ~r.records[1].is_merge

\* C22: updateSpan() with a token that carries no row ids raises and enqueues
\* nothing, whatever the event; a span started with such a token as its parent,
\* on the experiment, on a span or at the top level, is a new root span
\* (span_id = root_span_id, no span_parents) in the object and in every record
\* of it.
C22_RowlessTokenStartsRoot ==
  [][/\ (spans' = spans /\ flushCalls' = flushCalls) =>
          \A t \in RowlessTokens : \A e \in Events :
            UpdateSpan(t, e) =>
              lastCall'.raised /\ items' = items /\ emitted' = emitted
     /\ \A k \in 1..Len(spans') :
          spans'[k].root =>
            /\ spans'[k].spanId = spans'[k].rootSpanId
            /\ spans'[k].spanParents = <<>>
     /\ \A r \in Range(NewRecords) :
          (r.op \in UpdateOps \cup {"constructor"} /\ spans'[SpanOf(r)'].root) =>
            r.span_id = r.root_span_id /\ r.span_parents = <<>>
     /\ \A t \in RowlessTokens :
          IsNewRoot(startSpanAndIsLogger([parent |-> t, event |-> Plain]))]_vars

\* an updateSpan() has raised after a span was started on a span under a token
\* of another experiment that carries no row ids: a root span whose records
\* wait for an object id that does not resolve
C22_Witness ==
  /\ lastCall.raised
  /\ lastCall.op = "updateSpan"
  /\ \E k \in 2..Len(spans) :
       /\ spans[k].root
       /\ ~spans[k].parentObjectId.ok
       /\ spans[k].spanId = spans[k].rootSpanId
       /\ Len(RecordsOf(k)) >= 1

\* the step may be a top-level log(): it raised, or a span was built and ended
MayBeLog ==
  \/ lastCall'.raised /\ lastCall'.op = "Experiment.log"
  \/ Len(emitted') = Len(emitted) + 2 /\ Len(spans') = Len(spans) + 1

\* C28: a startSpan() or traced() on the experiment sets calledStartSpan and
\* nothing else does; the flag is never cleared; while it is set a log()
\* without allowConcurrentWithSpans raises and leaves the queue as it was,
\* and one with it is treated as before; while it is clear, a log() of a full
\* event with scores in range does not raise.
C28_LogRaisesOnceSpansStarted ==
  [][/\ experiment.calledStartSpan => experiment'.calledStartSpan
     /\ experiment'.calledStartSpan # experiment.calledStartSpan =>
          \E args \in StartArgs \cup TracedArgs :
            \/ StartSpan(TheExperiment, args)
            \/ TracedBegin(TheExperiment, args)
     /\ ~experiment'.calledStartSpan =>
          \A args \in StartArgs \cup TracedArgs :
            ~StartSpan(TheExperiment, args) /\ ~TracedBegin(TheExperiment, args)
     /\ MayBeLog =>
          \A args \in ExperimentLogArgs : \A now \in clock..MaxEndTime :
            ExperimentLog(args, now) =>
              /\ (experiment.calledStartSpan /\ ~args.allowConcurrentWithSpans) =>
                   lastCall'.raised /\ items' = items /\ emitted' = emitted
              /\ (~experiment.calledStartSpan \/ args.allowConcurrentWithSpans) =>
                   (lastCall'.raised <=>
                      ~(IsFullEvent(args) /\ args.scores = "inRange"))]_vars

\* a startSpan() on the experiment has queued the record of a span, and a
\* log() after it has raised and queued nothing
C28_Witness ==
  /\ experiment.calledStartSpan
  /\ lastCall.raised /\ lastCall.op = "Experiment.log"
  /\ Len(spans) = 1 /\ spans[1].root
  /\ Len(emitted) = 1
  /\ emitted[1].op = "constructor" /\ ~emitted[1].scores

\* ---------------------------------------------------------------- batching
\* records in the drain that is batched
MaxDrained == 3
\* the largest length of one record's JSON.stringify
MaxItemBytes == 3
\* the largest value BRAINTRUST_MAX_REQUEST_SIZE is set to, halved
MaxHalfRequest == 3
\* the largest value BRAINTRUST_DEFAULT_BATCH_SIZE is set to
MaxBatchSize == 2

\* the logger and the tracing API are not in use
NoLogger ==
  /\ budget = [items |-> 0, flushes |-> 0]
  /\ syncFlush = TRUE
  /\ numRetriesEnv = NaN
  /\ numTries = NumTriesOf(numRetriesEnv)
  /\ queueDropExceedingMaxsize = Undefined
  /\ failedPublishPayloadsDir = FALSE
  /\ allPublishPayloadsDir = FALSE
  /\ apiConn = 1
  /\ EmptyLogger
  /\ NothingTraced

\* the resolved records of a drain: rows of their own ids, each in a trace,
\* each with the length of its JSON
Resolved ==
  UNION {{[k \in 1..n |-> [id |-> k, ok |-> TRUE, trace |-> trs[k],
                            size |-> sizes[k]]] :
            trs \in [1..n -> 1..NumTraces], sizes \in [1..n -> 1..MaxItemBytes]} :
         n \in 0..MaxDrained}

\* flushOnce: `batchMaxNumBytes: this.maxRequestSize / 2`
batchMaxNumBytes(maxRequestSize) == maxRequestSize \div 2

\* flushOnce after `await this.unwrapLazyValues(wrappedItems)`: nothing to
\* do for an empty drain, else the batch sets are built
FlushOnceBatch ==
  /\ batching.pc = "resolved"
  /\ LET allItems == mergeRowBatch(batching.allItems)
     IN  batching' =
           IF Len(allItems) = 0 THEN [batching EXCEPT !.pc = "returned"]
           ELSE [batching EXCEPT
                   !.pc = "batched",
                   !.batchSets = batchItems(allItems, batching.batchSize,
                                   batchMaxNumBytes(batching.maxRequestSize))]
  /\ UNCHANGED <<pipeline, clock, items, spanVars, cliVars, currentVars, exportable, lazy, calls,
                 validation>>

\* a drain has been resolved by a logger with some batch size and some
\* maximum request size
BatchInit ==
  /\ NoLogger
  /\ NothingEvaluated
  /\ NothingCurrent
  /\ NothingValidated
  /\ NothingExported
  /\ \E rows \in Resolved :
     \E batchSize \in 1..MaxBatchSize :
     \E half \in 2..MaxHalfRequest :
       batching = [pc |-> "resolved", allItems |-> rows, batchSize |-> batchSize,
                   maxRequestSize |-> 2 * half, batchSets |-> <<>>]

BatchNext == FlushOnceBatch

BatchSpec == BatchInit /\ [][BatchNext]_vars

\* the batches of all the rounds
AllBatches ==
  UNION {Range(batching.batchSets[r]) : r \in 1..Len(batching.batchSets)}

RECURSIVE Bytes(_)
Bytes(batch) ==
  IF batch = <<>> THEN 0 ELSE Head(batch).size + Bytes(Tail(batch))

\* how many places of the batch sets hold the record
RECURSIVE Places(_, _)
Places(id, batches) ==
  IF batches = {} THEN 0
  ELSE LET b == CHOOSE x \in batches : TRUE
       IN  Cardinality({k \in 1..Len(b) : b[k].id = id}) + Places(id, batches \ {b})

\* C25: every batch of a flush pass holds at most the batch item count and
\* at most half the maximum request size of JSON; a drain of more JSON than
\* that is split into at least 2 batches; every record of the drain is in
\* exactly one batch.
C25_BatchesWithinLimits ==
  batching.pc = "batched" =>
    /\ \A b \in AllBatches :
         /\ Len(b) <= batching.batchSize
         /\ 2 * Bytes(b) <= batching.maxRequestSize
    /\ 2 * Bytes(batching.allItems) > batching.maxRequestSize =>
         Cardinality(AllBatches) >= 2
    /\ \A id \in Ids(batching.allItems) : Places(id, AllBatches) = 1

\* -------------------------------------------------------------- validation
\* entries of event.scores
MaxScores == 2
\* elements of event.tags
MaxTags == 3

\* JavaScript values: numbers are counted in tenths, so that 10 is 1 and 11
\* is 1.1; booleans are 0 (false) and 1 (true); the strings are numbered
One == 10
\* the number NaN, which is neither below nor above any number
NotANumber == 999

Num(n) == [t |-> "number", v |-> n]
Bool(b) == [t |-> "boolean", v |-> b]
Str(k) == [t |-> "string", v |-> k]
Null == [t |-> "null", v |-> 0]
Undef == [t |-> "undefined", v |-> 0]

SeqsUpTo(S, n) == UNION {[1..k -> S] : k \in 0..n}

\* the values a caller puts under a score name
ScoreValues ==
  {Bool(0), Bool(1), Num(-1), Num(0), Num(5), Num(One), Num(One + 1),
   Num(NotANumber), Str(1), Null, Undef}

\* event.scores: absent, an array, or an object, given by the values of its
\* entries in the order Object.entries lists them
NoScores == <<[t |-> "absent", v |-> 0]>>
ScoresArray == <<[t |-> "array", v |-> 0]>>
ScoresArgs == {NoScores, ScoresArray} \cup SeqsUpTo(ScoreValues, MaxScores)

\* event.tags: absent, or a list of strings and, for a caller that is not
\* type-checked, other values
NoTags == <<[t |-> "absent", v |-> 0]>>
TagsArgs == {NoTags} \cup SeqsUpTo({Str(1), Str(2), Num(7)}, MaxTags)

\* validateTags(tags): the loop over the tags with the set `seen`, to which
\* nothing is added
RECURSIVE validateTags(_, _)
validateTags(tags, seen) ==
  IF tags = <<>> THEN "none"
  ELSE IF Head(tags).t # "string" THEN "tags must be strings"
  ELSE IF Head(tags) \in seen THEN "duplicate tag"
  ELSE validateTags(Tail(tags), seen)

\* `if ("tags" in event && event.tags) validateTags(event.tags)`
TagsError(tags) == IF tags = NoTags THEN "none" ELSE validateTags(tags, {})

\* a coercion that keeps the boolean
CoercedKept(score) == score

\* `if (typeof score === "boolean") score = score ? 1 : 0`
Coerced(score) ==
  IF score.t = "boolean" THEN Num(IF score.v = 1 THEN One ELSE 0) ELSE score

\* a < b on JavaScript numbers
LessThan(a, b) == a # NotANumber /\ b # NotANumber /\ a < b

\* the body of the loop over Object.entries(event.scores) for one entry
ScoreError(score) ==
  IF score.t \in {"null", "undefined"} THEN "none"
  ELSE IF Coerced(score).t # "number" THEN "score values must be numbers"
  ELSE IF LessThan(Coerced(score).v, 0) \/ LessThan(One, Coerced(score).v)
    THEN "score values must be between 0 and 1"
  ELSE "none"

RECURSIVE ScoresLoop(_)
ScoresLoop(scores) ==
  IF scores = <<>> THEN "none"
  ELSE IF ScoreError(Head(scores)) # "none" THEN ScoreError(Head(scores))
  ELSE ScoresLoop(Tail(scores))

\* `if (event.scores) { ... }`
ScoresError(scores) ==
  IF scores = NoScores THEN "none"
  ELSE IF scores = ScoresArray THEN "scores must be an object, not an array"
  ELSE ScoresLoop(scores)

\* event.scores after the loop: the booleans it reached are written back as
\* numbers
SanitizedScores(scores) ==
  IF scores \in {NoScores, ScoresArray} THEN scores
  ELSE [k \in 1..Len(scores) |->
          IF \A j \in 1..k : ScoreError(scores[j]) = "none"
          THEN Coerced(scores[k]) ELSE scores[k]]

\* validateAndSanitizeExperimentLogPartialArgs(event), as span logging calls
\* it: the scores are looked at before the tags
ValidatePartial ==
  /\ validation.pc = "called"
  /\ validation.via = "log"
  /\ LET error == IF ScoresError(validation.scores) # "none"
                  THEN ScoresError(validation.scores)
                  ELSE TagsError(validation.tags)
     IN  validation' = [validation EXCEPT
                          !.pc = IF error = "none" THEN "returned" ELSE "raised",
                          !.scores = SanitizedScores(@),
                          !.error = error]
  /\ UNCHANGED <<pipeline, clock, items, spanVars, cliVars, currentVars, exportable, lazy, calls,
                 batching>>

\* Dataset.insert({tags, ...}) up to the construction of the record
DatasetInsert ==
  /\ validation.pc = "called"
  /\ validation.via = "insert"
  /\ LET error == TagsError(validation.tags)
     IN  validation' = [validation EXCEPT
                          !.pc = IF error = "none" THEN "returned" ELSE "raised",
                          !.error = error]
  /\ UNCHANGED <<pipeline, clock, items, spanVars, cliVars, currentVars, exportable, lazy, calls,
                 batching>>

\* an event is handed to span logging, or tags to Dataset.insert; `given` is
\* history: event.scores as the caller passed it
ValidateInit ==
  /\ NoLogger
  /\ NothingEvaluated
  /\ NothingCurrent
  /\ NothingBatched
  /\ NothingExported
  /\ \E tags \in TagsArgs :
       \/ \E scores \in ScoresArgs :
            validation = [pc |-> "called", via |-> "log", given |-> scores,
                          scores |-> scores, tags |-> tags, error |-> "none"]
       \/ validation = [pc |-> "called", via |-> "insert", given |-> NoScores,
                        scores |-> NoScores, tags |-> tags, error |-> "none"]

ValidateNext == ValidatePartial \/ DatasetInsert

ValidateSpec == ValidateInit /\ [][ValidateNext]_vars

\* the same tag occurs twice in the list
HasDuplicate(tags) ==
  \E i, j \in 1..Len(tags) : i < j /\ tags[i] = tags[j] /\ tags[i].t = "string"

HasNonString(tags) ==
  tags # NoTags /\ \E i \in 1..Len(tags) : tags[i].t # "string"

\* C26: a call whose scores pass raises when a tag occurs twice in the tags or
\* a tag is not a string, and does not raise for tags that are distinct
\* strings, in span logging and in Dataset.insert().
C26_DuplicateAndNonStringTagsRejected ==
  (validation.pc \in {"returned", "raised"}
     /\ ScoresError(validation.scores) = "none") =>
    (validation.pc = "raised" <=>
       HasDuplicate(validation.tags) \/ HasNonString(validation.tags))

IsObject(scores) == scores \notin {NoScores, ScoresArray}

ScoresErrors ==
  {"scores must be an object, not an array", "score values must be numbers",
   "score values must be between 0 and 1"}

InRange(score) ==
  score.t = "number" /\ score.v # NotANumber /\ score.v >= 0 /\ score.v <= One

\* a number below 0 or above 1
OutOfRange(score) ==
  score.t = "number" /\ score.v # NotANumber /\ (score.v < 0 \/ score.v > One)

\* true is 1 and false is 0
AsNumber(score) == IF score.t = "boolean" THEN Num(score.v * One) ELSE score

\* the call of span logging has returned or raised
Validated == validation.pc \in {"returned", "raised"} /\ validation.via = "log"

\* C27 as stated: the call raises for scores that are an array, for a score
\* below 0 or above 1 and for a score that is neither a number nor a boolean;
\* scores that are booleans and numbers in [0, 1] raise no error about scores
\* and come back with true as 1 and false as 0.
C27_ScoresSanitizedOrRejected ==
  Validated =>
    LET given == validation.given
    IN  /\ given = ScoresArray => validation.pc = "raised"
        /\ IsObject(given) =>
             /\ (\E k \in 1..Len(given) : OutOfRange(given[k])) =>
                  validation.pc = "raised"
             /\ (\E k \in 1..Len(given) : given[k].t \notin {"number", "boolean"}) =>
                  validation.pc = "raised"
             /\ (\A k \in 1..Len(given) : InRange(AsNumber(given[k]))) =>
                  /\ validation.error \notin ScoresErrors
                  /\ validation.scores = [k \in 1..Len(given) |-> AsNumber(given[k])]

\* a score the loop skips: `score === null || score === undefined`
IsSkipped(score) == score.t \in {"null", "undefined"}

\* C27 as amended: null and undefined scores are left as they are and are
\* no reason to raise; the error raised is one about the scores exactly when
\* they are an array or hold a number below 0 or above 1 or a value that is
\* not a number, a boolean, null or undefined; scores that pass come back
\* with true as 1 and false as 0.
C27_ScoresSanitizedOrRejectedButNull ==
  Validated =>
    LET given == validation.given
        bad(score) ==
          \/ OutOfRange(score)
          \/ score.t \notin {"number", "boolean", "null", "undefined"}
    IN  /\ given = NoScores => validation.error \notin ScoresErrors
        /\ given = ScoresArray =>
             validation.error = "scores must be an object, not an array"
        /\ IsObject(given) =>
             /\ (validation.error \in ScoresErrors) <=>
                  \E k \in 1..Len(given) : bad(given[k])
             /\ (\A k \in 1..Len(given) : ~bad(given[k])) =>
                  validation.scores = [k \in 1..Len(given) |-> AsNumber(given[k])]
        /\ validation.pc = "raised" <=> validation.error # "none"

\* scores of true and null have come back as 1 and null
C27_Witness ==
  /\ Validated
  /\ validation.pc = "returned"
  /\ validation.given = <<Bool(1), Null>>
  /\ validation.scores = <<Num(One), Null>>

\* ------------------------------------------------- lazy values and export
\* get() calls and export() calls made over a run
MaxCalls == 3

\* the ids the metadata of the object can turn out to have
ObjectIds == {"p1", "p2"}

Absent == "undefined"

getWithRetry(cell) ==
  IF cell.hasComputed /\ cell.val # "rejected"
  THEN [cell EXCEPT !.gets = @ + 1]
  ELSE [hasComputed |-> TRUE, val |-> "pending", invoked |-> cell.invoked + 1,
        gets |-> cell.gets + 1]

\* LazyValue.get(): the first call marks the value as computed and calls the
\* callable, whose promise is kept; every later call returns that promise
get(cell) ==
  IF cell.hasComputed
  THEN [cell EXCEPT !.gets = @ + 1]
  ELSE [hasComputed |-> TRUE, val |-> "pending", invoked |-> cell.invoked + 1,
        gets |-> cell.gets + 1]

\* the promise of a LazyValue is settled
HasSettled(cell) == cell.val \notin {"none", "pending"}

\* the getter `id`: an async function that runs up to its first await, the one
\* of this.lazyMetadata.get()
idGetter(l) == [l EXCEPT !.lazyMetadata = get(@)]

\* this.lazyId.get(), where lazyId = new LazyValue(async () => await this.id)
lazyIdGet(l) ==
  IF l.lazyId.hasComputed
  THEN [l EXCEPT !.lazyId = get(@)]
  ELSE idGetter([l EXCEPT !.lazyId = get(@)])

\* the span that the object starts is given its computeMetadataArgs by a
\* Logger and none by an Experiment
parentComputeObjectMetadataArgs ==
  exportable.kind = "logger" /\ exportable.computeMetadataArgs

exportsDescriptorAlways(computeArgs, hasComputed) == computeArgs

\* the test of Logger.export and of SpanImpl.export
exportsDescriptor(computeArgs, hasComputed) == computeArgs /\ ~hasComputed

NoToken == [objectId |-> Absent, computeObjectMetadataArgs |-> Absent]

\* a call that waits for the promise of one LazyValue
AwaitOf(op, cell, hadComputed) ==
  [op |-> op, cell |-> cell, pc |-> "awaiting", token |-> NoToken,
   saw |-> "none", hadComputed |-> hadComputed]

\* Logger.export and SpanImpl.export: the descriptor, or the awaited id
ExportOf(op, computeArgs) ==
  /\ Len(calls) < MaxCalls
  /\ IF exportsDescriptor(computeArgs, lazy.lazyId.hasComputed)
     THEN /\ calls' = Append(calls,
               [op |-> op, cell |-> "none", pc |-> "returned",
                token |-> [objectId |-> Absent,
                           computeObjectMetadataArgs |-> "args"],
                saw |-> "none", hadComputed |-> lazy.lazyId.hasComputed])
          /\ UNCHANGED lazy
     ELSE /\ lazy' = lazyIdGet(lazy)
          /\ calls' = Append(calls,
               AwaitOf(op, "lazyId", lazy.lazyId.hasComputed))
  /\ UNCHANGED <<pipeline, clock, items, spanVars, cliVars, currentVars, exportable, validation,
                 batching>>

LoggerExport ==
  /\ exportable.kind = "logger"
  /\ ExportOf("Logger.export", exportable.computeMetadataArgs)

SpanExport == ExportOf("Span.export", parentComputeObjectMetadataArgs)

\* Experiment.export: objectId: await this.id
ExperimentExport ==
  /\ exportable.kind = "experiment"
  /\ Len(calls) < MaxCalls
  /\ lazy' = idGetter(lazy)
  /\ calls' = Append(calls,
       AwaitOf("Experiment.export", "lazyMetadata", lazy.lazyId.hasComputed))
  /\ UNCHANGED <<pipeline, clock, items, spanVars, cliVars, currentVars, exportable, validation,
                 batching>>

\* the record of a span's log is computed: await this.parentObjectId.get()
ComputeRecord ==
  /\ Len(calls) < MaxCalls
  /\ lazy' = lazyIdGet(lazy)
  /\ calls' = Append(calls,
       AwaitOf("computeRecord", "lazyId", lazy.lazyId.hasComputed))
  /\ UNCHANGED <<pipeline, clock, items, spanVars, cliVars, currentVars, exportable, validation,
                 batching>>

\* a caller reads the id of the object
ReadId ==
  /\ Len(calls) < MaxCalls
  /\ lazy' = idGetter(lazy)
  /\ calls' = Append(calls,
       AwaitOf("id", "lazyMetadata", lazy.lazyMetadata.hasComputed))
  /\ UNCHANGED <<pipeline, clock, items, spanVars, cliVars, currentVars, exportable, validation,
                 batching>>

\* the callable of lazyMetadata (login, then the metadata of the object) ends:
\* with the metadata or with an error
SettleMetadata(outcome) ==
  /\ lazy.lazyMetadata.val = "pending"
  /\ lazy' = [lazy EXCEPT !.lazyMetadata.val = outcome]
  /\ UNCHANGED <<pipeline, clock, items, spanVars, cliVars, currentVars, exportable, calls,
                 validation, batching>>

\* the callable of lazyId ends as the id getter it awaits
SettleId ==
  /\ lazy.lazyId.val = "pending"
  /\ HasSettled(lazy.lazyMetadata)
  /\ lazy' = [lazy EXCEPT !.lazyId.val = lazy.lazyMetadata.val]
  /\ UNCHANGED <<pipeline, clock, items, spanVars, cliVars, currentVars, exportable, calls,
                 validation, batching>>

\* a waiting call goes on after its await: an export encodes the id, and a
\* rejection is thrown out of the call
Resume(k) ==
  /\ calls[k].pc = "awaiting"
  /\ HasSettled(lazy[calls[k].cell])
  /\ LET val == lazy[calls[k].cell].val IN
       calls' = [calls EXCEPT ![k] =
         IF val = "rejected"
         THEN [@ EXCEPT !.pc = "rejected", !.saw = val]
         ELSE [@ EXCEPT !.pc = "returned", !.saw = val,
                 !.token = IF calls[k].op \in {"Logger.export", "Span.export",
                                               "Experiment.export"}
                           THEN [objectId |-> val,
                                 computeObjectMetadataArgs |-> Absent]
                           ELSE NoToken]]
  /\ UNCHANGED <<pipeline, clock, items, spanVars, cliVars, currentVars, exportable, lazy,
                 validation, batching>>

\* a Logger with or without computeMetadataArgs, or an Experiment, on which
\* nothing has been called
DeferredInit ==
  /\ NoLogger
  /\ NothingEvaluated
  /\ NothingCurrent
  /\ NothingBatched
  /\ NothingValidated
  /\ exportable \in
       {[kind |-> "logger", computeMetadataArgs |-> b] : b \in BOOLEAN}
         \cup {[kind |-> "experiment", computeMetadataArgs |-> FALSE]}
  /\ lazy = [lazyMetadata |-> Fresh, lazyId |-> Fresh]
  /\ calls = <<>>

DeferredNext ==
  \/ LoggerExport
  \/ SpanExport
  \/ ExperimentExport
  \/ ComputeRecord
  \/ ReadId
  \/ \E outcome \in ObjectIds \cup {"rejected"} : SettleMetadata(outcome)
  \/ SettleId
  \/ \E k \in 1..Len(calls) : Resume(k)

DeferredSpec == DeferredInit /\ [][DeferredNext]_vars

\* --------------------------------------- claims about lazy values and export
Cells == {"lazyMetadata", "lazyId"}

\* C24: however many get() calls are made on one LazyValue while it is being
\* computed, its callable is called at most once; hasComputed is false until
\* the first get() and true from then on, while the promise is still pending;
\* every caller that has gone on saw the one outcome of the promise, a
\* rejection included, and a settled promise is never computed again.
C24_ProducerInvokedOnce ==
  /\ [](\A c \in Cells :
          /\ lazy[c].invoked <= 1
          /\ lazy[c].hasComputed <=> lazy[c].gets >= 1
          /\ lazy[c].hasComputed <=> lazy[c].invoked = 1
          /\ lazy[c].hasComputed <=> lazy[c].val # "none"
          /\ \A k \in 1..Len(calls) :
               calls[k].cell = c /\ calls[k].pc # "awaiting" =>
                 /\ calls[k].saw = lazy[c].val
                 /\ calls[k].pc = "rejected" <=> lazy[c].val = "rejected")
  /\ [][\A c \in Cells :
          /\ lazy[c].hasComputed =>
               lazy'[c].hasComputed /\ lazy'[c].invoked = lazy[c].invoked
          /\ lazy'[c].gets > lazy[c].gets => lazy'[c].hasComputed
          /\ HasSettled(lazy[c]) => lazy'[c].val = lazy[c].val]_vars

\* two callers of lazyId.get() were both thrown the rejection of the one call
\* of its callable
C24_Witness ==
  /\ lazy.lazyId.invoked = 1
  /\ lazy.lazyId.gets >= 2
  /\ \E j, k \in 1..Len(calls) :
       /\ j < k
       /\ calls[j].cell = "lazyId" /\ calls[j].pc = "rejected"
       /\ calls[k].cell = "lazyId" /\ calls[k].pc = "rejected"

HasDescriptor(c) == c.token.computeObjectMetadataArgs # Absent

HasObjectId(c) == c.token.objectId # Absent

\* the compute args that an export call has at hand
ComputeArgsOf(c) ==
  IF c.op = "Logger.export" THEN exportable.computeMetadataArgs
  ELSE exportable.kind = "logger" /\ exportable.computeMetadataArgs

\* C23: Logger.export and SpanImpl.export return a token with the descriptor
\* exactly when there are compute args and lazyId.hasComputed was false at the
\* call, and otherwise wait for the id and encode it; a returned token has
\* exactly one of the two; an export that returns the descriptor calls no
\* get(); Experiment.export always encodes the id of the metadata.
C23_DescriptorIffNotComputed ==
  /\ [](\A k \in 1..Len(calls) :
          LET c == calls[k] IN
            /\ c.op \in {"Logger.export", "Span.export"} =>
                 /\ (c.pc = "returned" /\ HasDescriptor(c)) <=>
                      (ComputeArgsOf(c) /\ ~c.hadComputed)
                 /\ c.pc = "returned" =>
                      /\ HasDescriptor(c) <=> ~HasObjectId(c)
                      /\ HasObjectId(c) =>
                           /\ c.token.objectId \in ObjectIds
                           /\ c.token.objectId = lazy.lazyId.val
                 /\ c.pc # "returned" => c.token = NoToken
            /\ c.op = "Experiment.export" =>
                 /\ ~HasDescriptor(c)
                 /\ c.pc = "returned" =>
                      /\ c.token.objectId \in ObjectIds
                      /\ c.token.objectId = lazy.lazyMetadata.val)
  /\ [][Len(calls') > Len(calls) /\ HasDescriptor(calls'[Len(calls')]) =>
          lazy' = lazy]_vars

\* a Logger exported the descriptor, then a record was computed, and a second
\* export returned the id
C23_Witness ==
  /\ exportable = [kind |-> "logger", computeMetadataArgs |-> TRUE]
  /\ \E j, k \in 1..Len(calls) :
       /\ j < k
       /\ calls[j].op = "Logger.export" /\ calls[j].pc = "returned"
       /\ HasDescriptor(calls[j])
       /\ calls[k].op \in {"Logger.export", "Span.export"}
       /\ calls[k].pc = "returned"
       /\ HasObjectId(calls[k])

\* ------------------------------------------------------------ current span
\* traced() calls made over a run
MaxCallbacks == 3

\* the setCurrent argument of traced()
SetCurrentArgs == {"undefined", "true", "false"}

\* setCurrent ?? true
SetCurrentOrTrue(setCurrent) ==
  IF setCurrent = "undefined" THEN TRUE ELSE setCurrent = "true"

\* AsyncLocalStorage.run(store, callback): the store of the code of callback
run(store, outer) == store

withCurrentNotRun(span, outer) == outer

\* withCurrent(span, callback): state.currentSpan.run(span, ...), the store
\* that callback runs with
withCurrent(span, outer) == run(span, outer)

\* currentSpan(): state.currentSpan.getStore() ?? NOOP_SPAN
currentSpan == IF asyncStore = Undefined THEN NOOP_SPAN ELSE asyncStore

\* traced(callback, args) up to the first await of callback: the span is
\* started and callback is called, through withCurrent unless setCurrent is
\* false. The span of the k-th call is k.
TracedCall(setCurrent) ==
  /\ Len(callbacks) < MaxCallbacks
  /\ LET span == Len(callbacks) + 1 IN
       /\ callbacks' = Append(callbacks,
            [caller |-> running, setCurrent |-> setCurrent, pc |-> "running",
             attached |-> TRUE, outer |-> asyncStore, context |-> Undefined])
       /\ asyncStore' = IF SetCurrentOrTrue(setCurrent)
                        THEN withCurrent(span, asyncStore)
                        ELSE asyncStore
       /\ running' = span
  /\ UNCHANGED <<pipeline, clock, items, spanVars, cliVars, lastRead, exportable, lazy,
                 calls, validation, batching>>

\* the code that is running evaluates currentSpan()
CurrentSpanRead ==
  /\ lastRead' = [by |-> running, got |-> currentSpan]
  /\ UNCHANGED <<pipeline, clock, items, spanVars, cliVars, asyncStore, running,
                 callbacks, exportable, lazy, calls, validation, batching>>

\* callback g stops running, at an await or for good. Its first stop returns
\* to the code that called traced(), after run() has put back the store it
\* found; a later stop returns to the event loop.
Leave(g, pc) ==
  /\ callbacks' = [callbacks EXCEPT ![g].pc = pc, ![g].attached = FALSE,
                                   ![g].context = asyncStore]
  /\ IF callbacks[g].attached
     THEN /\ running' = callbacks[g].caller
          /\ asyncStore' = IF SetCurrentOrTrue(callbacks[g].setCurrent)
                           THEN callbacks[g].outer
                           ELSE asyncStore
     ELSE /\ running' = EventLoop
          /\ asyncStore' = Undefined
  /\ UNCHANGED <<pipeline, clock, items, spanVars, cliVars, lastRead, exportable, lazy,
                 calls, validation, batching>>

\* the callback that is running reaches an await
Await ==
  /\ running # EventLoop
  /\ Leave(running, "suspended")

\* the callback that is running returns or throws
Exit ==
  /\ running # EventLoop
  /\ Leave(running, "exited")

\* the event loop runs the continuation of a suspended callback, with the
\* store the callback had when it was suspended
Continue(g) ==
  /\ running = EventLoop
  /\ callbacks[g].pc = "suspended"
  /\ callbacks' = [callbacks EXCEPT ![g].pc = "running"]
  /\ running' = g
  /\ asyncStore' = callbacks[g].context
  /\ UNCHANGED <<pipeline, clock, items, spanVars, cliVars, lastRead, exportable, lazy,
                 calls, validation, batching>>

CurrentInit ==
  /\ NoLogger
  /\ NothingEvaluated
  /\ NothingBatched
  /\ NothingValidated
  /\ NothingExported
  /\ NothingCurrent

CurrentNext ==
  \/ \E setCurrent \in SetCurrentArgs : TracedCall(setCurrent)
  \/ CurrentSpanRead
  \/ Await
  \/ Exit
  \/ \E g \in 1..Len(callbacks) : Continue(g)

CurrentSpec == CurrentInit /\ [][CurrentNext]_vars

\* -------------------------------------------------- claims about current span
\* the callback of a traced() that set its span as current
SetsCurrent(g) == g # EventLoop /\ SetCurrentOrTrue(callbacks[g].setCurrent)

RECURSIVE CallersOf(_)
\* g and the callbacks it was called from, directly or not
CallersOf(g) ==
  IF g = EventLoop THEN {} ELSE {g} \cup CallersOf(callbacks[g].caller)

RECURSIVE CurrentOf(_)
\* the span of the nearest traced() around the code of g that set its span as
\* current
CurrentOf(g) ==
  IF g = EventLoop THEN NOOP_SPAN
  ELSE IF SetsCurrent(g) THEN g
  ELSE CurrentOf(callbacks[g].caller)

\* C21: in the callback of a traced() whose setCurrent is not false,
\* currentSpan() is the span of that traced() whenever the code of the callback
\* runs, after an await as well; code that the callback did not call, directly
\* or not, never has that span as current; and when the callback leaves, the
\* span that was current at the call of traced() (or the no-op span) is
\* current again.
C21_CurrentSpanFollowsCallTree ==
  /\ [](/\ SetsCurrent(running) => currentSpan = running
        /\ currentSpan # NOOP_SPAN => currentSpan \in CallersOf(running)
        /\ currentSpan = CurrentOf(running)
        /\ SetsCurrent(lastRead.by) => lastRead.got = lastRead.by
        /\ lastRead.got # NOOP_SPAN => lastRead.got \in CallersOf(lastRead.by)
        /\ lastRead.got = CurrentOf(lastRead.by))
  /\ [][/\ running # EventLoop
         /\ callbacks'[running].pc # "running"
         /\ callbacks[running].attached
         => /\ running' = callbacks[running].caller
            /\ asyncStore' = callbacks[running].outer]_vars

\* two traced() calls of the event loop's code are both in progress; the
\* first has been suspended and runs again, and reads its own span, while the
\* second is suspended with its span as current
C21_Witness ==
  /\ Len(callbacks) >= 2
  /\ callbacks[1].caller = EventLoop /\ callbacks[2].caller = EventLoop
  /\ SetsCurrent(1) /\ SetsCurrent(2)
  /\ running = 1
  /\ callbacks[1].context = 1
  /\ ~callbacks[1].attached
  /\ callbacks[2].pc = "suspended" /\ callbacks[2].context = 2
  /\ lastRead = [by |-> 1, got |-> 1]

\* ---------------------------------------------------- claims about a drain
\* the records of a drain whose lazy values resolve
OkIds(wrapped) == {wrapped[k].id : k \in {j \in 1..Len(wrapped) : wrapped[j].ok}}

\* the records a pass is submitting or has lined up for a later round
LinedUp(q) ==
  UNION {Ids(q.batches[k].rows) : k \in 1..Len(q.batches)}
    \cup UNION {UNION {Ids(q.rounds[r][k]) : k \in 1..Len(q.rounds[r])} :
                 r \in 1..Len(q.rounds)}

\* the last try of unwrapLazyValues on a drain in which some lazy values
\* resolve and some do not
LastTryOfMixedDrain(p) ==
  /\ p.pc = "unwrap"
  /\ ~AllResolve(p.wrapped)
  /\ OkIds(p.wrapped) # {}
  /\ ~isRetrying(p.i, numTries)

\* C30: when the last try of unwrapLazyValues settles on a drain in which
\* some lazy values do not resolve, the pass goes on to submit the records of
\* the drain that did resolve.
C30_ResolvedRecordsStillSubmitted ==
  [][\A p \in passes :
       (LastTryOfMixedDrain(p) /\ p \notin passes') =>
         \E q \in passes' :
           /\ q.id = p.id
           /\ q.pc = "submit"
           /\ OkIds(p.wrapped) \subseteq LinedUp(q)]_vars

\* the records the step has accepted into the queue
AcceptedNow == (nextId + 1)..(nextId + (stats'.accepted - stats.accepted))

\* the records the step has taken out of the queue
RemovedNow == (Ids(items) \cup AcceptedNow) \ Ids(items')

\* C29: whenever records leave the queue, they are the whole queue, none of
\* them has left it before, and they are what one pass, fresh in its first
\* try of unwrapLazyValues, holds as its drain; every record accepted so far
\* is in the queue or has been drained, never both and never twice.
C29_DrainedExactlyOnce ==
  [][/\ RemovedNow # {} =>
          /\ items' = <<>>
          /\ RemovedNow = Ids(items) \cup AcceptedNow
          /\ RemovedNow \cap stats.drained = {}
          /\ \E q \in passes' \ passes :
               /\ q.pc = "unwrap" /\ q.i = 0
               /\ Ids(q.wrapped) = RemovedNow
               /\ Len(q.wrapped) = Cardinality(RemovedNow)
     /\ ~stats'.redrained
     /\ Ids(items') \cap stats'.drained = {}
     /\ Len(items') = Cardinality(Ids(items'))
     /\ Cardinality(Ids(items') \cup stats'.drained) = stats'.accepted]_vars

\* log() calls have interleaved with a running pass: a second drain, made by
\* the same pass, has taken what was logged during the first, and more has
\* been logged since
C29_Witness ==
  /\ stats.drains >= 2
  /\ passCount = 1
  /\ Cardinality(stats.drained) >= 2
  /\ Len(items) >= 1
  /\ \E p \in passes : p.pc = "submit"

\* ---------------------------------------------- claims about a submission
\* C31: within one attempt of a batch the legacy endpoint ("logs") is posted
\* to only when the post to "logs3" of that attempt has failed, and nothing is
\* counted then; an attempt is counted as failed (retried, spilled, dropped or
\* raised) only when the post to "logs" has failed too; a new attempt starts
\* only after that; and once a post has succeeded the batch makes no step.
C31_LegacyOnlyAfterCurrentFails ==
  [][\A p \in passes : \A q \in passes' :
       SameRound(p, q) =>
         \A k \in 1..Len(p.batches) :
           LET b == p.batches[k]
               c == q.batches[k]
           IN  /\ (c.pc = "logs" /\ b.pc # "logs") =>
                    /\ b.pc = "logs3"
                    /\ c.i = b.i /\ c.attempts = b.attempts
                    /\ c.failedWrites = b.failedWrites
               /\ (c.i # b.i \/ c.failedWrites # b.failedWrites) => b.pc = "logs"
               /\ (c.pc \in {"dropped", "error"} /\ c.pc # b.pc) =>
                    b.pc \in {"logs", "conn"}
               /\ (c.attempts > b.attempts /\ b.attempts > 0) => b.pc = "logs"
               /\ (c.pc = "success" /\ b.pc # "success") =>
                    /\ b.pc \in {"logs3", "logs"}
                    /\ c.i = b.i /\ c.attempts = b.attempts
               /\ b.pc = "success" => c = b]_vars

\* the legacy endpoint is being posted to in the second attempt of a batch
C31_Witness ==
  \E b \in Batches : b.pc = "logs" /\ b.i = 1 /\ b.attempts = 2

\* the round of pass p is over with the step: the pass has left it
RoundOver(p) == p.pc = "submit" /\ ~\E q \in passes' : SameRound(p, q)

Failing(p) == {k \in 1..Len(p.batches) : p.batches[k].pc = "error"}

\* C32: a round is left only when every batch of it has finished all its
\* attempts; it is left with an error exactly when a batch of it has failed,
\* the error raised is one aggregate of the errors of all the failing
\* batches, and the pass ends with it: no next round starts, the queue is not
\* drained again.
C32_AggregateAfterAllBatches ==
  [][\A p \in passes :
       RoundOver(p) =>
         /\ \A k \in 1..Len(p.batches) : Settled(p.batches[k])
         /\ failingResultErrors(p.batches) = Failing(p)
         /\ Failing(p) # {} =>
              /\ ~\E q \in passes' : q.id = p.id
              /\ done'.id = p.id /\ done'.exit = "error"
              /\ activeFlushError' = p.id
              /\ stats'.raised = stats.raised \cup {p.id}
              /\ items' = items
         /\ Failing(p) = {} =>
              /\ ~(done'.id = p.id /\ done'.exit = "error")
              /\ activeFlushError' = activeFlushError
              /\ stats'.raised = stats.raised]_vars

\* a round of two batches is about to raise: every batch of it has finished,
\* one has failed after its attempts and another has succeeded
C32_Witness ==
  \E p \in passes :
    /\ p.pc = "submit"
    /\ \A k \in 1..Len(p.batches) : Settled(p.batches[k])
    /\ \E j, k \in 1..Len(p.batches) :
         /\ p.batches[j].pc = "error" /\ p.batches[j].attempts > 0
         /\ p.batches[k].pc = "success"

\* C33: when every promise a pass awaits settles in the end, every pass ends:
\* the resolution of a drain is tried at most numTries times and a batch is
\* attempted at most numTries times, so whenever a pass is in progress, later
\* none is.
C33_EveryPassTerminates ==
  /\ [](\A p \in passes :
          /\ p.i < numTries
          /\ \A k \in 1..Len(p.batches) :
               /\ p.batches[k].attempts <= numTries
               /\ p.batches[k].i <= numTries)
  /\ (passes # {}) ~> (passes = {})

\* the legacy post of the last attempt of a batch is pending, after a retry
C33_Witness ==
  /\ numTries >= 2
  /\ \E b \in Batches : b.pc = "logs" /\ b.attempts = numTries /\ b.i = numTries - 1

\* the step is a log() call; one that queued a record
IsLog == nextId' > nextId

Queued == stats'.accepted > stats.accepted

\* the step starts a pass, which drains the whole queue
StartsPass ==
  /\ passCount' = passCount + 1
  /\ activeFlush' = passCount'
  /\ ~activeFlushResolved'
  /\ items' = <<>>
  /\ \E p \in passes' : p.id = passCount' /\ p.pc = "unwrap"
  /\ \A p \in passes : p \in passes'

\* C34: in synchronous-flush mode no log() call starts a pass, and a pass
\* starts only in a flush() call; in asynchronous mode a log() call that
\* queues a record starts a pass when none is in flight, and leaves the pass
\* in flight as it is otherwise.
C34_LogStartsPassOnlyWhenAsync ==
  [][/\ (syncFlush /\ IsLog) => (passCount' = passCount /\ passes' = passes)
     /\ (syncFlush /\ passCount' # passCount) =>
          (Len(flushCalls') = Len(flushCalls) + 1 /\ StartsPass)
     /\ (~syncFlush /\ IsLog /\ Queued) =>
          IF passes = {}
          THEN activeFlushResolved /\ StartsPass
          ELSE /\ ~activeFlushResolved
               /\ passCount' = passCount /\ passes' = passes
               /\ Len(items') > Len(items)]_vars

\* asynchronous mode: a record is queued behind a pass in flight that a log()
\* call started
C34_Witness ==
  /\ ~syncFlush
  /\ Len(flushCalls) = 0
  /\ passCount = 1
  /\ passes # {}
  /\ Len(items) >= 1

\* a batch that has finished all its attempts
Finished(b) == b.pc \in {"success", "dropped", "error"}

\* the step starts a round: a pass is in a round it was not in before
RoundStarts ==
  \E q \in passes' : q.pc = "submit" /\ ~\E p \in passes : SameRound(p, q)

\* C35: only one drain is being submitted at a time, and only one round of it:
\* every batch that is posted belongs to the one pass in progress and holds
\* records of its latest drain; a drain is made and a round is started only
\* when every batch of the round before has finished all its attempts.
C35_SubmissionsFollowDrainOrder ==
  /\ [](/\ Cardinality(passes) <= 1
        /\ \A p \in passes :
             /\ \A k \in 1..Len(p.batches) :
                  Ids(p.batches[k].rows) \subseteq Ids(p.wrapped)
             /\ Ids(p.wrapped) \cap Ids(items) = {}
             /\ \A id \in Ids(items) : \A old \in Ids(p.wrapped) : old < id)
  /\ [][(RoundStarts \/ stats'.drains > stats.drains) =>
          \A b \in Batches : Finished(b)]_vars

\* a record of a second drain is being posted, after the records of the
\* first drain were
C35_Witness ==
  /\ stats.drains >= 2
  /\ \E p \in passes :
       /\ stats.drained \ Ids(p.wrapped) # {}
       /\ \E k \in 1..Len(p.batches) : p.batches[k].pc = "logs3"

\* the step emits the overflow warning
Warns == stats'.warned > stats.warned

\* the step drops records
Drops == stats'.dropped > stats.dropped

\* C36: the overflow warning is emitted only in a call that drops records,
\* and only when the clock is more than the logging period past the last
\* warning, whose time it then becomes; a drop inside the period emits no
\* warning and adds to the counter; what the warnings have reported and the
\* counter always add up to the number of records dropped.
C36_WarningOncePerCooldown ==
  /\ [](/\ stats.warned + queueDropLoggingState.numDropped = stats.dropped
        /\ queueDropLoggingState.lastLoggedTimestamp <= clock)
  /\ [][/\ Warns =>
             /\ Drops
             /\ clock - queueDropLoggingState.lastLoggedTimestamp
                  > DropLoggingPeriod
             /\ queueDropLoggingState'.lastLoggedTimestamp = clock
             /\ queueDropLoggingState'.numDropped = 0
             /\ stats'.warned - stats.warned =
                  queueDropLoggingState.numDropped
                    + (stats'.dropped - stats.dropped)
        /\ (Drops /\ ~Warns) =>
             /\ clock - queueDropLoggingState.lastLoggedTimestamp
                  <= DropLoggingPeriod
             /\ queueDropLoggingState'.lastLoggedTimestamp =
                  queueDropLoggingState.lastLoggedTimestamp
             /\ queueDropLoggingState'.numDropped =
                  queueDropLoggingState.numDropped
                    + (stats'.dropped - stats.dropped)
        /\ ~Drops => queueDropLoggingState' = queueDropLoggingState]_vars

\* two warnings have been emitted, the second after the period of the first
\* was over
C36_Witness ==
  /\ queueDropLoggingState.lastLoggedTimestamp > ClockStart
  /\ stats.dropped >= 2
  /\ stats.warned = stats.dropped

\* C37: in asynchronous mode, whenever the queue holds a record a pass is in
\* progress.
C37_QueuedImpliesPassInFlight ==
  (~syncFlush /\ Len(items) > 0) => passes # {}

\* the records of the batch sets that a pass has not started yet
RowsOf(batchSets) ==
  UNION {UNION {Ids(batchSets[r][k]) : k \in 1..Len(batchSets[r])} :
           r \in 1..Len(batchSets)}

\* the records of the round in progress that were posted at least once, or
\* whose batch was dropped with the warning of submitLogsRequest
PostedOrWarned(p) ==
  UNION {Ids(p.batches[k].rows) :
           k \in {j \in 1..Len(p.batches) :
                    p.batches[j].attempts > 0 \/ p.batches[j].pc = "dropped"}}

\* the records of the rounds that the pass has left, all without an error
InEarlierRounds(p) ==
  Ids(p.wrapped) \ (RowsOf(p.rounds) \cup RowsOf(<<[k \in 1..Len(p.batches) |->
                                                      p.batches[k].rows]>>))

\* the pass ends with the step
PassEnds(p) == ~\E q \in passes' : q.id = p.id

\* C38: when a pass ends while submitting a drain, every record of the drain
\* has been posted at least once or was dropped with a warning, the records
\* of the rounds after a round that raised included.
C38_DrainedRecordsPostedOrWarned ==
  [][\A p \in passes :
       (p.pc = "submit" /\ PassEnds(p)) =>
         Ids(p.wrapped) \subseteq (PostedOrWarned(p) \cup InEarlierRounds(p))]_vars

\* --------------------------------------------- a log() that raises, then end()
\* the events handed to log() here: nothing, an end time in metrics.end, and
\* events that log() raises for, with and without an end time
EndEvents ==
  {Plain, [Plain EXCEPT !.end = MaxEndTime], [Plain EXCEPT !.tags = <<"t">>],
   [Plain EXCEPT !.tags = <<"t">>, !.end = MaxEndTime],
   [Plain EXCEPT !.scores = "outOfRange", !.end = MaxEndTime]}

EndNext ==
  \/ \E on \in {TheExperiment} \cup (1..Len(spans)) :
       StartSpan(on, [parent |-> NoParent, event |-> Plain])
  \/ \E a \in 1..Len(spans) : \E event \in EndEvents : SpanLog(a, event)
  \/ \E a \in 1..Len(spans) : SetAttributes(a)
  \/ \E a \in 1..Len(spans) : \E args \in EndArgs : SpanEnd(a, args)

EndSpec == SpanInit /\ [][EndNext]_vars

\* C39: a log() or setAttributes() call that raises changes no span, its
\* recorded end time included, and queues nothing, so that an end() after it
\* queues and returns what it would have without the call.
C39_RaisingLogLeavesSpanUnchanged ==
  [][\A a \in 1..Len(spans) :
       /\ \A event \in EndEvents :
            (SpanLog(a, event) /\ lastCall'.raised) =>
              (spans' = spans /\ emitted' = emitted)
       /\ (SetAttributes(a) /\ lastCall'.raised) =>
            (spans' = spans /\ emitted' = emitted)]_vars


(***************************************************************************)
(* The eval CLI: run(), runOnce() and the FileHandles of initFile().       *)
(* A handle's rebuild() and destroy() are promises: each is "none" before  *)
(* the call, "pending" between the call and its settling.                  *)
(***************************************************************************)

MaxFiles == 2
MaxEvaluators == 2

EvaluatorNames == 1..MaxEvaluators

\* initFile: the handle of one input file, nothing called yet
initFile ==
  [rebuild |-> "none", evaluator |-> {}, watch |-> FALSE, destroy |-> "none"]

\* the finally block of run: handle.destroy() of the handle after `from`,
\* awaited; past the last handle run() is over
destroyNext(r, hs, from) ==
  IF from < Len(hs)
  THEN <<[r EXCEPT !.pc = "destroy", !.destroying = from + 1],
         [hs EXCEPT ![from + 1].destroy = "pending"]>>
  ELSE <<[r EXCEPT !.pc = "over", !.destroying = 0], hs>>

\* runOnce up to its first await: rebuild() of every handle is called
runOnceBuilds(hs) == [h \in 1..Len(hs) |-> [hs[h] EXCEPT !.rebuild = "pending"]]

\* runAndWatch up to its await: watch() of every handle is called
runAndWatch(hs) == [h \in 1..Len(hs) |-> [hs[h] EXCEPT !.watch = TRUE]]

\* run, after the login: runAndWatch is awaited and never settles;
\* runOnce is called and not awaited, and the finally block follows
AfterLogin(r, hs) ==
  IF r.watch
  THEN /\ cliRun' = [r EXCEPT !.pc = "watching"]
       /\ handles' = runAndWatch(hs)
       /\ UNCHANGED cliOnce
  ELSE LET d == destroyNext(r, runOnceBuilds(hs), 0)
       IN /\ cliRun' = d[1]
          /\ handles' = d[2]
          /\ cliOnce' = [cliOnce EXCEPT !.pc = "builds"]

\* run(args): the handles are initialized, and login is awaited unless
\* no_send_logs
RunStart(files, noSendLogs, watch) ==
  /\ cliRun.pc = "none"
  /\ LET r == [pc |-> "login", noSendLogs |-> noSendLogs, watch |-> watch,
               threw |-> FALSE, destroying |-> 0]
         hs == [h \in 1..files |-> initFile]
     IN IF noSendLogs
        THEN AfterLogin(r, hs)
        ELSE /\ cliRun' = r
             /\ handles' = hs
             /\ UNCHANGED cliOnce
  /\ UNCHANGED <<pipeline, clock, items, spanVars,
                 currentVars, exportable, lazy, calls, validation, batching>>

\* the login settles; when it rejects only the finally block runs
LoginSettle(ok) ==
  /\ cliRun.pc = "login"
  /\ IF ok
     THEN AfterLogin(cliRun, handles)
     ELSE LET d == destroyNext([cliRun EXCEPT !.threw = TRUE], handles, 0)
          IN /\ cliRun' = d[1]
             /\ handles' = d[2]
             /\ UNCHANGED cliOnce
  /\ UNCHANGED <<pipeline, clock, items, spanVars,
                 currentVars, exportable, lazy, calls, validation, batching>>

\* a handle's rebuild() settles: a failure, or the evaluators of the file
RebuildSettle(h, ok, names) ==
  /\ h \in 1..Len(handles)
  /\ handles[h].rebuild = "pending"
  /\ handles' = [handles EXCEPT ![h].rebuild = IF ok THEN "success" ELSE "failure",
                                ![h].evaluator = IF ok THEN names ELSE {}]
  /\ UNCHANGED <<pipeline, clock, items, spanVars, cliRun, cliOnce,
                 currentVars, exportable, lazy, calls, validation, batching>>

\* updateEvaluators: the names of the builds that succeeded, a name of
\* two files once
updateEvaluators(buildResults) ==
  UNION {buildResults[h].evaluator :
           h \in {k \in 1..Len(buildResults) : buildResults[k].rebuild = "success"}}

\* runOnce after Promise.all(buildPromises): every evaluator starts, with
\* initLogger awaited first unless noSendLogs
BuildsSettle ==
  /\ cliOnce.pc = "builds"
  /\ \A h \in 1..Len(handles) : handles[h].rebuild \in {"success", "failure"}
  /\ cliOnce' = [pc |-> "evaluators",
                 evaluators |->
                   [e \in updateEvaluators(handles) |->
                      IF cliRun.noSendLogs THEN "running" ELSE "logger"]]
  /\ UNCHANGED <<pipeline, clock, items, spanVars, cliRun, handles,
                 currentVars, exportable, lazy, calls, validation, batching>>

\* initLogger of one evaluator settles and runEvaluator is called
InitLoggerSettle(e) ==
  /\ cliOnce.pc = "evaluators"
  /\ e \in DOMAIN cliOnce.evaluators
  /\ cliOnce.evaluators[e] = "logger"
  /\ cliOnce' = [cliOnce EXCEPT !.evaluators[e] = "running"]
  /\ UNCHANGED <<pipeline, clock, items, spanVars, cliRun, handles,
                 currentVars, exportable, lazy, calls, validation, batching>>

\* runEvaluator of one evaluator settles
EvaluatorSettle(e) ==
  /\ cliOnce.pc = "evaluators"
  /\ e \in DOMAIN cliOnce.evaluators
  /\ cliOnce.evaluators[e] = "running"
  /\ cliOnce' = [cliOnce EXCEPT !.evaluators[e] = "done"]
  /\ UNCHANGED <<pipeline, clock, items, spanVars, cliRun, handles,
                 currentVars, exportable, lazy, calls, validation, batching>>

\* runOnce after Promise.all(resultPromises): the results are reported
Report ==
  /\ cliOnce.pc = "evaluators"
  /\ \A e \in DOMAIN cliOnce.evaluators : cliOnce.evaluators[e] = "done"
  /\ cliOnce' = [cliOnce EXCEPT !.pc = "reported"]
  /\ UNCHANGED <<pipeline, clock, items, spanVars, cliRun, handles,
                 currentVars, exportable, lazy, calls, validation, batching>>

\* the awaited destroy() settles: the finally block goes to the next handle
DestroySettle ==
  /\ cliRun.pc = "destroy"
  /\ LET d == destroyNext(cliRun,
                          [handles EXCEPT ![cliRun.destroying].destroy = "done"],
                          cliRun.destroying)
     IN /\ cliRun' = d[1]
        /\ handles' = d[2]
  /\ UNCHANGED <<pipeline, clock, items, spanVars, cliOnce,
                 currentVars, exportable, lazy, calls, validation, batching>>

\* SIGINT or SIGTERM while watching: every handle is destroyed, the
\* process exits
Signal ==
  /\ cliRun.pc = "watching"
  /\ cliRun' = [cliRun EXCEPT !.pc = "exited"]
  /\ handles' = [h \in 1..Len(handles) |-> [handles[h] EXCEPT !.destroy = "pending"]]
  /\ UNCHANGED <<pipeline, clock, items, spanVars, cliOnce,
                 currentVars, exportable, lazy, calls, validation, batching>>

EvalInit ==
  /\ NoLogger
  /\ NothingBatched /\ NothingValidated /\ NothingExported /\ NothingCurrent
  /\ NothingEvaluated

EvalNext ==
  \/ \E files \in 1..MaxFiles, noSendLogs \in BOOLEAN, watch \in BOOLEAN :
       RunStart(files, noSendLogs, watch)
  \/ \E ok \in BOOLEAN : LoginSettle(ok)
  \/ \E h \in 1..MaxFiles, ok \in BOOLEAN, names \in SUBSET EvaluatorNames :
       RebuildSettle(h, ok, names)
  \/ BuildsSettle
  \/ \E e \in EvaluatorNames : InitLoggerSettle(e)
  \/ \E e \in EvaluatorNames : EvaluatorSettle(e)
  \/ Report
  \/ DestroySettle
  \/ Signal

EvalSpec == EvalInit /\ [][EvalNext]_vars

\* what runOnce started and has not finished: a rebuild, or an evaluator
InProgress ==
  \/ \E h \in 1..Len(handles) : handles[h].rebuild = "pending"
  \/ cliOnce.pc \in {"builds", "evaluators"}

\* C40: without watch, no handle.destroy() has been called while a rebuild
\* or an evaluator run that runOnce started is still in progress
C40_DestroyAfterRunOnce ==
  (~cliRun.watch /\ \E h \in 1..Len(handles) : handles[h].destroy # "none")
    => ~InProgress

====
